---- MODULE Spec2Model ----
(***************************************************************************)
(* Model of the lv media viewer: the texture cache and the image           *)
(* preloader (src/src/preload.rs), the UI main loop's display pipeline and *)
(* the mpv render thread (src/src/main.rs), and the background job engine  *)
(* (src/src/jobs.rs with the job queries of src/src-imgui/src/db.rs).      *)
(***************************************************************************)
EXTENDS FiniteSets, Integers, Sequences, TLC

\* ------------------------------------------------------------------------
\* Bounds of the model
\* ------------------------------------------------------------------------
MaxCap == 2
MaxOps == 5
MaxElapsed == 200   \* timers stop counting here (ms)
MaxBurst == 3       \* the length of a burst is counted up to here
NumWorkers == 2     \* job workers started (1..4 in the program, by CPU count)
MaxFsOps == 3       \* filesystem operations of the environment
MaxCmds == 2        \* Watch/Unwatch commands sent to the watcher thread
MaxListOps == 2     \* keys and drops that change the visible list
MaxDbOps == 4       \* calls on the files and meta tables
MaxToggles == 3     \* toggles and reads of tags
MaxScans == 2       \* runs of the scanner

\* ------------------------------------------------------------------------
\* The files the model knows: file name, extension, directory and whether
\* the path exists on disk at the start.  Ids follow the order of the full
\* paths (dir/name), the order every listing query uses.
\* ------------------------------------------------------------------------
NoPath == "-"

Files == <<
    [id |-> 1, path |-> "a.jpg",    ext |-> "jpg",  dir |-> "/d1", on_disk |-> TRUE],
    [id |-> 2, path |-> "v.mp4",    ext |-> "mp4",  dir |-> "/d1", on_disk |-> TRUE],
    [id |-> 3, path |-> "b.png",    ext |-> "png",  dir |-> "/d2", on_disk |-> TRUE],
    [id |-> 4, path |-> "w.mkv",    ext |-> "mkv",  dir |-> "/d2", on_disk |-> TRUE],
    [id |-> 5, path |-> "gone.mp4", ext |-> "mp4",  dir |-> "/d3", on_disk |-> FALSE],
    [id |-> 6, path |-> "s.heic",   ext |-> "heic", dir |-> "/d3", on_disk |-> TRUE],
    [id |-> 7, path |-> "x.mp4",    ext |-> "mp4",  dir |-> "/ext", on_disk |-> TRUE] >>

\* The files that have a row when the viewer starts; x.mp4 lies in a
\* directory that is not tracked.
StartRows == 1..6

Paths == {Files[i].path : i \in 1..Len(Files)}

IMAGE_EXTS == {"jpg", "jpeg", "png", "gif", "bmp", "webp", "tiff", "tif", "avif", "ico", "svg"}

VIDEO_EXTS == {"mp4", "avi", "mov", "mkv", "webm", "flv", "wmv", "m4v", "3gp"}

FileAt(path) == Files[CHOOSE i \in 1..Len(Files) : Files[i].path = path]

ext_of(path) == FileAt(path).ext

is_image(path) == ext_of(path) \in IMAGE_EXTS

is_video(path) == ext_of(path) \in VIDEO_EXTS

ImagePaths == {p \in Paths : is_image(p)}

\* Keys uploaded to a TextureCache exercised on its own.
CachePaths == {"a.jpg", "b.png", "c.gif", "d.webp"}

VARIABLES
    \* TextureCache (preload.rs)
    tc_capacity,    \* capacity fixed at construction
    tc_map,         \* path -> GL texture id of the cached texture
    tc_order,       \* LRU order: front = oldest, back = newest
    gl_live,        \* GL texture ids that exist (generated and not deleted)
    gl_peak,        \* most textures alive at any point of the last upload
    tc_evicted,     \* paths evicted by the last upload, in eviction order
    tc_created,     \* whether the last upload created a GL texture
    tc_answer,      \* result of the last has / get
    use_clock,      \* number of uploads so far
    last_use,       \* path -> use_clock value of its last upload or touch
    lru_expected,   \* cached path with the smallest last_use before the last upload
    \* Preloader (preload.rs)
    pending,        \* paths being decoded or decoded and not yet taken
    ready,          \* paths with a decoded image waiting in the ready map
    decoders,       \* path -> number of decoder threads in flight for it
    decode_state,   \* path -> outcome of its latest scheduled decode
    pl_pc,          \* position of the UI thread inside the cold-decode check
    pl_path,        \* path the UI thread is checking
    pl_sched,       \* whether that path had a decode scheduled and not yet taken
    pl_report,      \* what the last completed check reported
    pl_last,        \* last Preloader call made by the UI thread and its effect
    \* UI main loop (main.rs)
    frame_pc,           \* position of the UI thread inside one frame of the main loop
    cursor,             \* index into files of the entry under the cursor, from 1
    needs_display,
    pending_cold_load,  \* path of the async cold decode in progress, or NoPath
    pending_video,      \* deferred loadfile: path and time since Instant::now() was taken
    using_mpv,
    video_has_frame,
    has_frame,          \* MpvRenderShared.has_frame
    error_message,      \* (error, filename) of the overlay, or NoError
    mpv_file,           \* what the video engine was last told: the loaded path, or NoPath after stop
    sel_timer,          \* time since the display step last selected a video
    burst_path,         \* the video path that selection selected
    burst_len,          \* video selections in the current burst, counted up to MaxBurst
    burst_loads,        \* loadfile commands sent since the current burst began
    burst_resumed,      \* a burst went on after a loadfile had been sent for it
    \* mpv render thread and MpvRenderShared (main.rs)
    display_tex,        \* MpvRenderShared.display_tex: GL texture with the latest frame, 0 = none
    sh_quit,            \* MpvRenderShared.quit
    sh_width,           \* MpvRenderShared.width
    sh_height,          \* MpvRenderShared.height
    sh_resize,          \* MpvRenderShared.resize
    redraw_flag,        \* set by mpv's update callback
    r_pc,               \* position of the render thread
    r_w,                \* render thread's w
    r_h,                \* render thread's h
    r_nw,               \* render thread's nw
    back,               \* render thread's back (index into tex / fbo)
    tex_content,        \* what each of the two textures holds
    ui_rpc,             \* position of the UI thread inside "Signal render thread about resize"
    ui_size,            \* drawable size the UI thread is publishing
    ui_read,            \* the display_tex value the UI thread last read and what that texture held
    \* Job engine (jobs.rs) and the store's job tables (db.rs)
    db_hash,            \* files.hash_sha512 by file id, NoHash = NULL
    db_meta,            \* files.meta_id by file id (the meta row of that hash), NoHash = NULL
    meta_rows,          \* meta rows, by hash
    meta_width,         \* meta rows whose width is set
    meta_pnginfo,       \* meta rows whose pnginfo is set
    job_fails,          \* job_fails rows: <<file id, layer name>>
    turbo,              \* JobStats.turbo
    je_quit,            \* JobEngine.quit
    stat_active,        \* JobStats.active
    w_pc,               \* position of each worker in worker_loop
    w_turbo,            \* each worker's local turbo
    w_work,             \* each worker's work item (file id, layer)
    w_ok,               \* each worker's result of process_layer
    rs_pc,              \* position of the rate updater thread
    stop_pc,            \* position of the caller inside JobEngine::stop
    cmd_pc,             \* position of the `worker` command's polling loop, "off" in the viewer
    q_jobs,             \* per worker: jobs finished since quit was set, counted up to 2
    q_sleeps,           \* per worker: sleeps finished since quit was set, counted up to 2
    \* The disk and the file catalogue (files table of db.rs)
    disk,               \* file id -> [size, secs] of the file on disk, or NoStat
    cat_rows,           \* the files (indices of Files) that have a row in files
    cat_id,             \* files.id of the row of a file, 0 without a row
    cat_temp,           \* the files whose row has temporary = 1
    cat_size,           \* files.size by file id
    cat_mtime,          \* files.modified_at by file id
    cat_hash,           \* file ids whose hash_sha512 / meta_id are set
    idx_stat,           \* what the file on disk looked like when its row was last written
    fs_ops,             \* filesystem operations so far
    \* Watcher thread (watcher.rs) and its channels
    wt_pc,              \* position of the watcher thread in run_watcher's loop
    wt_quit,            \* FsWatcher.quit
    wt_watching,        \* directories the notify watcher watches
    cmd_rx,             \* WatchCmd channel, UI -> watcher thread
    nrx,                \* notify events waiting for the watcher thread
    fs_rx,              \* FsEvent channel, watcher thread -> UI
    cmds_sent,          \* commands sent so far
    wt_seen,            \* the commands queued when the current iteration began
    wt_applied,         \* the commands applied in the current iteration, in order
    \* The list the UI shows (main.rs) and the directories table
    files,              \* the visible list: entries [id, file], file an index of Files
    collection_mode,    \* the collection shown, NoMode in directory mode
    current_dir,        \* the directory of directory mode
    watched_dir,        \* the directory the UI has asked the watcher to watch
    dir_rows,           \* directories rows: [path, recursive] of the tracked ones
    list_ops,           \* keys and drops that changed the list so far
    \* The database tables as db.rs reads and writes them
    directories,        \* directories rows: [path, tracked, watched, recursive]
    files_tbl,          \* files rows: [id, path, size, modified_at, hash_sha512, meta_id]
    meta_tbl,           \* meta rows: [id, hash_sha512, tags]
    history,            \* history rows in the order of their ids: [file_id, action]
    last_insert_rowid,  \* the connection's rowid of the last successful INSERT
    db_ret,             \* the last call on the tables: [op, arg, val]
    db_ops,             \* calls on the files, meta and history tables so far
    conn_lock,          \* the thread that holds the Mutex<Connection>, 0 for none
    th,                 \* by thread: its position in a toggle and the toggle's locals
    db_log,             \* the calls in the order of their writes: toggles, scanner runs
    \* The end of main (main.rs): the wait for the render thread
    sd_pc,              \* the UI's position in the wait loop
    sd_elapsed,         \* start.elapsed() in ms
    sd_joined,          \* render_thread.join() has returned
    \* The video a frame comes from
    r_src,              \* the file the engine played when the current render began
    hf_src,             \* the file of the frame the last has_frame store announced
    \* The hash layer's job on a file (jobs.rs process_hash)
    xattr,              \* by file: the content (its stat) whose hash user.lv.sha512 holds
    hj_pc,              \* the worker's position in process_hash
    hj_file,            \* the file of the job
    hj_read,            \* the content the worker has read and hashed
    hash_src            \* by file: the content whose hash the row links

texVars == <<tc_capacity, tc_map, tc_order, gl_live, gl_peak, tc_evicted, tc_created,
             tc_answer, use_clock, last_use, lru_expected>>

preVars == <<pending, ready, decoders, decode_state>>

plVars == <<pl_pc, pl_path, pl_sched, pl_report, pl_last>>

uiVars == <<frame_pc, cursor, needs_display, pending_cold_load, pending_video, using_mpv,
            video_has_frame, has_frame, error_message, mpv_file, 
            sel_timer, burst_path, burst_len, burst_loads, burst_resumed>>

rendVars == <<display_tex, sh_quit, sh_width, sh_height, sh_resize, redraw_flag, r_pc, r_w, r_h,
              r_nw, back, tex_content, ui_rpc, ui_size, ui_read>>

jobVars == <<db_hash, db_meta, meta_rows, meta_width, meta_pnginfo, job_fails, turbo, je_quit,
             stat_active, w_pc, w_turbo, w_work, w_ok, rs_pc, stop_pc, cmd_pc, q_jobs, q_sleeps>>

catVars == <<disk, cat_rows, cat_id, cat_temp, cat_size, cat_mtime, cat_hash, idx_stat, fs_ops>>

wtVars == <<wt_pc, wt_quit, wt_watching, cmd_rx, nrx, fs_rx, cmds_sent, wt_seen, wt_applied>>

listVars == <<files, collection_mode, current_dir, watched_dir, dir_rows, list_ops>>

dbVars == <<directories, files_tbl, meta_tbl, history, last_insert_rowid, db_ret, db_ops,
            conn_lock, th, db_log>>

shutVars == <<sd_pc, sd_elapsed, sd_joined>>

frameVars == <<r_src, hf_src>>

hashVars == <<xattr, hj_pc, hj_file, hj_read, hash_src>>

auxVars == <<shutVars, frameVars, hashVars>>

envVars == <<catVars, wtVars, listVars, dbVars, auxVars>>

vars == <<texVars, preVars, plVars, uiVars, rendVars, jobVars, envVars>>

\* std::path::Path::new(path).exists()
path_exists(path) == disk[FileAt(path).id].size >= 0

\* ------------------------------------------------------------------------
\* TextureCache
\* ------------------------------------------------------------------------
Max(a, b) == IF a >= b THEN a ELSE b

RemoveAt(s, i) == SubSeq(s, 1, i - 1) \o SubSeq(s, i + 1, Len(s))

Position(s, x) == IF \E i \in 1..Len(s) : s[i] = x
                  THEN CHOOSE i \in 1..Len(s) : s[i] = x /\ \A j \in 1..(i - 1) : s[j] # x
                  ELSE 0

\* gl::GenTextures: a texture name that is not in use.
GenTexture(live) == CHOOSE t \in 1..(Cardinality(live) + 1) : t \notin live

\* A cache value is [capacity, map, order, live] plus what the last upload did
\* (peak, evicted, created).
has(c, path) == path \in DOMAIN c.map

get(c, path) == IF path \in DOMAIN c.map THEN c.map[path] ELSE 0

\* A touch that leaves the order as it is.
touch_keeps_position(c, path) == c

touch(c, path) ==
    LET pos == Position(c.order, path)
        removed == IF pos # 0 THEN RemoveAt(c.order, pos) ELSE c.order
    IN  [c EXCEPT !.order = Append(removed, path)]

\* An eviction loop that only evicts once the cache is over capacity.
RECURSIVE evict_loop_over_capacity(_)
evict_loop_over_capacity(c) ==
    IF Cardinality(DOMAIN c.map) > c.capacity /\ c.order # <<>>
    THEN LET old_path == Head(c.order)
             popped == [c EXCEPT !.order = Tail(c.order)]
         IN  IF old_path \in DOMAIN c.map
             THEN evict_loop_over_capacity([popped EXCEPT
                      !.map = [q \in DOMAIN c.map \ {old_path} |-> c.map[q]],
                      !.live = c.live \ {c.map[old_path]},
                      !.evicted = Append(c.evicted, old_path)])
             ELSE evict_loop_over_capacity(popped)
    ELSE c

\* The eviction loop of upload: while map.len() >= capacity pop the front
\* of the order and delete its texture.  (A cache whose order is empty holds
\* no entry, so with capacity >= 1 the loop ends.)
RECURSIVE evict_loop(_)
evict_loop(c) ==
    IF Cardinality(DOMAIN c.map) >= c.capacity /\ c.order # <<>>
    THEN LET old_path == Head(c.order)
             popped == [c EXCEPT !.order = Tail(c.order)]
         IN  IF old_path \in DOMAIN c.map
             THEN evict_loop([popped EXCEPT
                      !.map = [q \in DOMAIN c.map \ {old_path} |-> c.map[q]],
                      !.live = c.live \ {c.map[old_path]},
                      !.evicted = Append(c.evicted, old_path)])
             ELSE evict_loop(popped)
    ELSE c

upload(c0, path) ==
    LET c == [c0 EXCEPT !.peak = Cardinality(c0.live), !.evicted = <<>>, !.created = FALSE]
    IN  IF path \in DOMAIN c.map
        THEN touch(c, path)
        ELSE LET e == evict_loop(c)
                 gl_id == GenTexture(e.live)
             IN  [e EXCEPT
                     !.live = e.live \cup {gl_id},
                     !.peak = Max(c.peak, Cardinality(e.live) + 1),
                     !.map = [q \in DOMAIN e.map \cup {path} |->
                                 IF q = path THEN gl_id ELSE e.map[q]],
                     !.order = Append(e.order, path),
                     !.created = TRUE]

CurCache == [capacity |-> tc_capacity, map |-> tc_map, order |-> tc_order, live |-> gl_live,
             peak |-> gl_peak, evicted |-> tc_evicted, created |-> tc_created]

SetCache(c) ==
    /\ tc_capacity' = c.capacity
    /\ tc_map' = c.map
    /\ tc_order' = c.order
    /\ gl_live' = c.live
    /\ gl_peak' = c.peak
    /\ tc_evicted' = c.evicted
    /\ tc_created' = c.created

\* The cached path whose last upload or touch is the oldest.
LeastRecentlyUsed ==
    IF DOMAIN tc_map = {} THEN NoPath
    ELSE CHOOSE p \in DOMAIN tc_map : \A q \in DOMAIN tc_map : last_use[p] <= last_use[q]

InitTexCache(caps) ==
    /\ tc_capacity \in caps
    /\ tc_map = [q \in {} |-> 0]
    /\ tc_order = <<>>
    /\ gl_live = {}
    /\ gl_peak = 0
    /\ tc_evicted = <<>>
    /\ tc_created = FALSE
    /\ tc_answer = [op |-> "none", path |-> NoPath, value |-> 0]
    /\ use_clock = 0
    /\ last_use = [p \in Paths \cup CachePaths |-> 0]
    /\ lru_expected = NoPath

TexUpload(path) ==
    /\ use_clock < MaxOps
    /\ SetCache(upload(CurCache, path))
    /\ use_clock' = use_clock + 1
    /\ last_use' = [last_use EXCEPT ![path] = use_clock + 1]
    /\ lru_expected' = LeastRecentlyUsed
    /\ tc_answer' = [op |-> "upload", path |-> path,
                     value |-> IF has(CurCache, path) THEN 1 ELSE 0]
    /\ UNCHANGED <<preVars, plVars, uiVars, rendVars, jobVars, envVars>>

TexHas(path) ==
    /\ tc_answer' = [op |-> "has", path |-> path,
                     value |-> IF has(CurCache, path) THEN 1 ELSE 0]
    /\ UNCHANGED <<tc_capacity, tc_map, tc_order, gl_live, gl_peak, tc_evicted, tc_created,
                   use_clock, last_use, lru_expected>>
    /\ UNCHANGED <<preVars, plVars, uiVars, rendVars, jobVars, envVars>>

TexGet(path) ==
    /\ tc_answer' = [op |-> "get", path |-> path, value |-> get(CurCache, path)]
    /\ UNCHANGED <<tc_capacity, tc_map, tc_order, gl_live, gl_peak, tc_evicted, tc_created,
                   use_clock, last_use, lru_expected>>
    /\ UNCHANGED <<preVars, plVars, uiVars, rendVars, jobVars, envVars>>

\* ------------------------------------------------------------------------
\* Preloader
\* ------------------------------------------------------------------------
InitPreloader ==
    /\ pending = {}
    /\ ready = {}
    /\ decoders = [p \in Paths |-> 0]
    /\ decode_state = [p \in Paths |-> "none"]

\* A Preloader value: the pending set, the ready map, and the decoder
\* threads schedule has spawned.
CurPre == [pending |-> pending, ready |-> ready, decoders |-> decoders, state |-> decode_state]

SetPre(pl) ==
    /\ pending' = pl.pending
    /\ ready' = pl.ready
    /\ decoders' = pl.decoders
    /\ decode_state' = pl.state

\* An is_pending that keeps answering yes after the decoder has given up.
is_pending_sticky(pl, path) == TRUE

is_pending(pl, path) == path \in pl.pending

\* A schedule without the early return.
schedule_spawns_always(pend, path) == TRUE

\* schedule: returns early when the path is in the pending set, otherwise
\* inserts it and spawns a decoder thread.
schedule_spawns(pend, path) == path \notin pend

schedule(pl, path) ==
    IF schedule_spawns(pl.pending, path)
    THEN [pl EXCEPT !.pending = @ \cup {path},
                    !.decoders[path] = @ + 1,
                    !.state[path] = "running"]
    ELSE pl

\* try_take: removes the buffer from the ready map and, when there was one,
\* the path from the pending set (both under the ready lock).
try_take(pl, path) ==
    IF path \in pl.ready
    THEN [pl EXCEPT !.ready = @ \ {path},
                    !.pending = @ \ {path},
                    !.state[path] = "taken"]
    ELSE pl

\* A decoder that clears the pending entry as soon as it has stored the image.
DecoderStoreClearsPending(path) ==
    /\ decoders[path] > 0
    /\ ready' = ready \cup {path}
    /\ pending' = pending \ {path}
    /\ decoders' = [decoders EXCEPT ![path] = @ - 1]
    /\ decode_state' = [decode_state EXCEPT ![path] = "stored"]

\* The decoder thread spawned by schedule: on success it stores the image in
\* the ready map, on failure it removes the path from the pending set.
DecoderStore(path) ==
    /\ decoders[path] > 0
    /\ ready' = ready \cup {path}
    /\ decoders' = [decoders EXCEPT ![path] = @ - 1]
    /\ decode_state' = [decode_state EXCEPT ![path] = "stored"]
    /\ UNCHANGED pending

DecoderFail(path) ==
    /\ decoders[path] > 0
    /\ pending' = pending \ {path}
    /\ decoders' = [decoders EXCEPT ![path] = @ - 1]
    /\ decode_state' = [decode_state EXCEPT ![path] = "failed"]
    /\ UNCHANGED ready

\* The UI thread's calls into the Preloader, as the main loop makes them.
InitPl ==
    /\ pl_pc = "idle"
    /\ pl_path = NoPath
    /\ pl_sched = FALSE
    /\ pl_report = [path |-> NoPath, outcome |-> "none", scheduled |-> FALSE, state |-> "none"]
    /\ pl_last = [op |-> "none", path |-> NoPath, spawned |-> FALSE,
                  before |-> <<{}, {}>>, after |-> <<{}, {}>>]

UiSchedule(path) ==
    /\ pl_pc = "idle"
    /\ SetPre(schedule(CurPre, path))
    /\ pl_last' = [op |-> "schedule", path |-> path,
                   spawned |-> (decoders'[path] > decoders[path]),
                   before |-> <<pending, ready>>, after |-> <<pending', ready'>>]
    /\ UNCHANGED <<pl_pc, pl_path, pl_sched, pl_report>>
    /\ UNCHANGED <<texVars, uiVars, rendVars, jobVars, envVars>>

\* main.rs cold-decode check, first half: try_take(cold_path).
UiCheckTake(path) ==
    /\ pl_pc = "idle"
    /\ SetPre(try_take(CurPre, path))
    /\ pl_last' = [op |-> "try_take", path |-> path, spawned |-> FALSE,
                   before |-> <<pending, ready>>, after |-> <<pending', ready'>>]
    /\ IF path \in ready
       THEN /\ pl_report' = [path |-> path, outcome |-> "uploaded", scheduled |-> TRUE,
                             state |-> decode_state[path]]
            /\ UNCHANGED <<pl_pc, pl_path, pl_sched>>
       ELSE /\ pl_pc' = "took_nothing"
            /\ pl_path' = path
            /\ pl_sched' = (decode_state[path] \in {"running", "stored", "failed"})
            /\ UNCHANGED pl_report
    /\ UNCHANGED <<texVars, uiVars, rendVars, jobVars, envVars>>

\* second half: else if !is_pending(cold_path) -> "Decode failed".
UiCheckPending ==
    /\ pl_pc = "took_nothing"
    /\ pl_pc' = "idle"
    /\ pl_path' = NoPath
    /\ pl_sched' = FALSE
    /\ pl_report' = [path |-> pl_path,
                     outcome |-> IF is_pending(CurPre, pl_path) THEN "waiting" ELSE "decode_failed",
                     scheduled |-> pl_sched,
                     state |-> decode_state[pl_path]]
    /\ pl_last' = [op |-> "is_pending", path |-> pl_path, spawned |-> FALSE,
                   before |-> <<pending, ready>>, after |-> <<pending, ready>>]
    /\ UNCHANGED preVars
    /\ UNCHANGED <<texVars, uiVars, rendVars, jobVars, envVars>>

\* ------------------------------------------------------------------------
\* UI main loop: cold-decode check, display step, video debounce
\* ------------------------------------------------------------------------
VIDEO_DEBOUNCE_MS == 150

TickMs == 50

PRELOAD_BEHIND == 10

PRELOAD_AHEAD == 11

NoError == [msg |-> "", fname |-> ""]

NoVideo == [path |-> NoPath, elapsed |-> 0]

Min(a, b) == IF a <= b THEN a ELSE b

CurPath == Files[files[cursor].file].path

InitUi ==
    /\ frame_pc = "events"
    /\ cursor \in StartRows
    /\ needs_display = TRUE
    /\ pending_cold_load = NoPath
    /\ pending_video = NoVideo
    /\ using_mpv = FALSE
    /\ video_has_frame = FALSE
    /\ has_frame = FALSE
    /\ error_message = NoError
    /\ mpv_file = NoPath
    /\ sel_timer = MaxElapsed
    /\ burst_path = NoPath
    /\ burst_len = 0
    /\ burst_loads = 0
    /\ burst_resumed = FALSE

\* Time passes: Instant::elapsed() of the stamps taken so far grows.
Tick ==
    /\ \/ pending_video.path # NoPath /\ pending_video.elapsed < MaxElapsed
       \/ sel_timer < MaxElapsed
    /\ pending_video' = IF pending_video.path # NoPath
                        THEN [pending_video EXCEPT !.elapsed = Min(@ + TickMs, MaxElapsed)]
                        ELSE pending_video
    /\ sel_timer' = Min(sel_timer + TickMs, MaxElapsed)
    /\ UNCHANGED <<frame_pc, cursor, needs_display, pending_cold_load, using_mpv,
                   video_has_frame, has_frame, error_message, mpv_file, 
                   burst_path, burst_len, burst_loads, burst_resumed>>
    /\ UNCHANGED <<texVars, preVars, plVars, rendVars, jobVars, envVars>>

\* Event pump: a key that puts the cursor on file c (j, k, u, n, ...; r keeps
\* the cursor) sets needs_display.
KeyNavigate(c) ==
    /\ frame_pc = "events"
    /\ c \in 1..Len(files)
    /\ cursor' = c
    /\ needs_display' = TRUE
    /\ frame_pc' = "cold"
    /\ UNCHANGED <<pending_cold_load, pending_video, using_mpv, video_has_frame, has_frame,
                   error_message, mpv_file, sel_timer, burst_path, burst_len,
                   burst_loads, burst_resumed>>
    /\ UNCHANGED <<texVars, preVars, plVars, rendVars, jobVars, envVars>>

NoInput ==
    /\ frame_pc = "events"
    /\ frame_pc' = "cold"
    /\ UNCHANGED <<cursor, needs_display, pending_cold_load, pending_video, using_mpv,
                   video_has_frame, has_frame, error_message, mpv_file, 
                   sel_timer, burst_path, burst_len, burst_loads, burst_resumed>>
    /\ UNCHANGED <<texVars, preVars, plVars, rendVars, jobVars, envVars>>

\* "Check for completed async cold decode": try_take(cold_path), upload.
ColdCheckTake ==
    /\ frame_pc = "cold"
    /\ IF pending_cold_load = NoPath
       THEN /\ frame_pc' = "display"
            /\ UNCHANGED <<pending_cold_load, preVars, tc_capacity, tc_map, tc_order, gl_live,
                           gl_peak, tc_evicted, tc_created>>
       ELSE IF pending_cold_load \in ready
       THEN /\ SetPre(try_take(CurPre, pending_cold_load))
            /\ SetCache(upload(CurCache, pending_cold_load))
            /\ pending_cold_load' = NoPath
            /\ frame_pc' = "display"
       ELSE /\ frame_pc' = "cold_pending"
            /\ UNCHANGED <<pending_cold_load, preVars, tc_capacity, tc_map, tc_order, gl_live,
                           gl_peak, tc_evicted, tc_created>>
    /\ UNCHANGED <<cursor, needs_display, pending_video, using_mpv, video_has_frame, has_frame,
                   error_message, mpv_file, sel_timer, burst_path, burst_len,
                   burst_loads, burst_resumed>>
    /\ UNCHANGED <<tc_answer, use_clock, last_use, lru_expected, plVars, rendVars, jobVars, envVars>>

\* "else if !preloader.is_pending(cold_path)": decode failed, error overlay.
ColdCheckPending ==
    /\ frame_pc = "cold_pending"
    /\ frame_pc' = "display"
    /\ IF ~is_pending(CurPre, pending_cold_load)
       THEN /\ pending_cold_load' = NoPath
            /\ error_message' = [msg |-> "Failed to decode image", fname |-> pending_cold_load]
       ELSE UNCHANGED <<pending_cold_load, error_message>>
    /\ UNCHANGED <<cursor, needs_display, pending_video, using_mpv, video_has_frame, has_frame,
                   mpv_file, sel_timer, burst_path, burst_len, burst_loads,
                   burst_resumed>>
    /\ UNCHANGED <<texVars, preVars, plVars, rendVars, jobVars, envVars>>

\* schedule_preload: the neighbours of the cursor that are images, are not
\* cached and are not pending, in list order.
RECURSIVE schedule_preload(_, _, _, _)
schedule_preload(pl, cache, i, last) ==
    IF i > last THEN pl
    ELSE LET path == Files[files[i].file].path
         IN  IF i # cursor /\ is_image(path) /\ ~has(cache, path) /\ ~is_pending(pl, path)
             THEN schedule_preload(schedule(pl, path), cache, i + 1, last)
             ELSE schedule_preload(pl, cache, i + 1, last)

\* The image branch: clears the error, the pending video and the pending
\* cold load ("cancel any prior async decode"), stops mpv, then shows the
\* image from the cache, from the preloader, or schedules its decode.
DisplayImage(path) ==
    /\ error_message' = NoError
    /\ pending_video' = NoVideo
    /\ IF using_mpv
       THEN /\ mpv_file' = NoPath
            /\ has_frame' = FALSE
       ELSE UNCHANGED <<mpv_file, has_frame>>
    /\ using_mpv' = FALSE
    /\ LET cleared == NoPath
           first == Max(cursor - PRELOAD_BEHIND, 1)
           last == Min(cursor + PRELOAD_AHEAD - 1, Len(files))
       IN  IF has(CurCache, path)
           THEN /\ pending_cold_load' = cleared
                /\ SetPre(schedule_preload(CurPre, CurCache, first, last))
                /\ UNCHANGED <<tc_capacity, tc_map, tc_order, gl_live, gl_peak, tc_evicted,
                               tc_created>>
           ELSE IF path \in ready
           THEN /\ pending_cold_load' = cleared
                /\ SetCache(upload(CurCache, path))
                /\ SetPre(schedule_preload(try_take(CurPre, path),
                                           upload(CurCache, path), first, last))
           ELSE /\ pending_cold_load' = path
                /\ SetPre(schedule_preload(schedule(CurPre, path), CurCache, first, last))
                /\ UNCHANGED <<tc_capacity, tc_map, tc_order, gl_live, gl_peak, tc_evicted,
                               tc_created>>
    /\ burst_len' = 0
    /\ UNCHANGED <<video_has_frame, sel_timer, burst_path, burst_loads,
                   burst_resumed>>

\* The video branch: stops mpv, defers loadfile with a fresh stamp.
DisplayVideo(path) ==
    /\ error_message' = NoError
    /\ IF using_mpv
       THEN /\ mpv_file' = NoPath
            /\ has_frame' = FALSE
       ELSE UNCHANGED <<mpv_file, has_frame>>
    /\ using_mpv' = TRUE
    /\ video_has_frame' = FALSE
    /\ pending_video' = [path |-> path, elapsed |-> 0]
    /\ LET resumes == burst_len > 0 /\ sel_timer < VIDEO_DEBOUNCE_MS
       IN  /\ burst_len' = IF resumes THEN Min(burst_len + 1, MaxBurst) ELSE 1
           /\ burst_loads' = IF resumes THEN burst_loads ELSE 0
           /\ burst_resumed' = (resumes /\ burst_loads > 0)
    /\ sel_timer' = 0
    /\ burst_path' = path
    /\ UNCHANGED <<pending_cold_load, preVars, tc_capacity, tc_map, tc_order,
                   gl_live, gl_peak, tc_evicted, tc_created>>

DisplayMissing(path) ==
    /\ error_message' = [msg |-> "File not found", fname |-> path]
    /\ burst_len' = 0
    /\ UNCHANGED <<pending_cold_load, pending_video, using_mpv, video_has_frame, has_frame,
                   mpv_file, sel_timer, burst_path, burst_loads, burst_resumed,
                   preVars, tc_capacity, tc_map, tc_order, gl_live, gl_peak, tc_evicted,
                   tc_created>>

DisplayUnsupported(path) ==
    /\ error_message' = [msg |-> "Unsupported file type", fname |-> path]
    /\ burst_len' = 0
    /\ UNCHANGED <<pending_cold_load, pending_video, using_mpv, video_has_frame, has_frame,
                   mpv_file, sel_timer, burst_path, burst_loads, burst_resumed,
                   preVars, tc_capacity, tc_map, tc_order, gl_live, gl_peak, tc_evicted,
                   tc_created>>

\* "Display current file": runs when needs_display is set and the cursor is
\* on an entry of the list; then "re-watch if current_dir changed".
DisplayStep ==
    /\ frame_pc = "display"
    /\ frame_pc' = "debounce"
    /\ needs_display' = FALSE
    /\ IF ~needs_display \/ cursor \notin 1..Len(files)
       THEN UNCHANGED <<pending_cold_load, pending_video, using_mpv, video_has_frame,
                        has_frame, error_message, mpv_file, sel_timer,
                        burst_path, burst_len, burst_loads, burst_resumed, preVars,
                        tc_capacity, tc_map, tc_order, gl_live, gl_peak, tc_evicted, tc_created>>
       ELSE IF ~path_exists(CurPath) THEN DisplayMissing(CurPath)
       ELSE IF is_image(CurPath) THEN DisplayImage(CurPath)
       ELSE IF is_video(CurPath) THEN DisplayVideo(CurPath)
       ELSE DisplayUnsupported(CurPath)
    /\ IF current_dir # watched_dir
       THEN /\ cmd_rx' = cmd_rx \o <<[op |-> "Unwatch", dir |-> watched_dir],
                                     [op |-> "Watch", dir |-> current_dir]>>
            /\ watched_dir' = current_dir
       ELSE UNCHANGED <<cmd_rx, watched_dir>>
    /\ UNCHANGED <<cursor, tc_answer, use_clock, last_use, lru_expected, plVars, rendVars,
                   jobVars, catVars, files, collection_mode, current_dir, dir_rows, list_ops,
                   dbVars, auxVars>>
    /\ UNCHANGED <<wt_pc, wt_quit, wt_watching, nrx, fs_rx, cmds_sent, wt_seen, wt_applied>>

\* A debounce that fires one tick early.
debounce_elapsed_early(pv) == pv.elapsed >= VIDEO_DEBOUNCE_MS - TickMs

\* stamp.elapsed().as_millis() >= VIDEO_DEBOUNCE_MS
debounce_elapsed(pv) == pv.elapsed >= VIDEO_DEBOUNCE_MS

\* "Fire deferred video load after debounce period".
DebounceStep ==
    /\ frame_pc = "debounce"
    /\ frame_pc' = "events"
    /\ IF pending_video.path # NoPath /\ debounce_elapsed(pending_video)
       THEN /\ mpv_file' = pending_video.path
            /\ burst_loads' = burst_loads + 1
            /\ pending_video' = NoVideo
       ELSE UNCHANGED <<mpv_file, burst_loads, pending_video>>
    /\ UNCHANGED <<cursor, needs_display, pending_cold_load, using_mpv, video_has_frame,
                   has_frame, error_message, sel_timer, burst_path, burst_len, burst_resumed>>
    /\ UNCHANGED <<texVars, preVars, plVars, rendVars, jobVars, envVars>>

\* "Check if render thread has produced a frame", in the block the loop runs
\* after the debounce when using_mpv:
\* if mpv_shared.has_frame.load(Acquire) { video_has_frame = true }
UiCheckFrame ==
    /\ frame_pc = "events"
    /\ using_mpv
    /\ has_frame
    /\ ~video_has_frame
    /\ video_has_frame' = TRUE
    /\ UNCHANGED <<frame_pc, cursor, needs_display, pending_cold_load, pending_video, using_mpv,
                   has_frame, error_message, mpv_file, sel_timer, burst_path, burst_len,
                   burst_loads, burst_resumed>>
    /\ UNCHANGED <<texVars, preVars, plVars, rendVars, jobVars, envVars>>

\* The moment loadfile is sent to the video engine.
LoadFires ==
    /\ frame_pc = "debounce"
    /\ pending_video.path # NoPath
    /\ pending_video'.path = NoPath

\* Decoder threads running next to the main loop.
DecoderStep ==
    /\ \/ \E path \in ImagePaths : DecoderStore(path)
       \/ \E path \in ImagePaths : DecoderFail(path)
    /\ UNCHANGED <<texVars, plVars, uiVars, rendVars, jobVars, envVars>>

\* ------------------------------------------------------------------------
\* mpv render thread (spawn_mpv_render_thread) and the UI thread's side of
\* MpvRenderShared
\* ------------------------------------------------------------------------
\* GL names of the two textures made by gl::GenTextures(2, ..): tex[0], tex[1].
TexName == <<1, 2>>

\* Drawable sizes the window takes.
Sizes == {1, 2}

otherVarsOfRend == <<texVars, preVars, plVars, jobVars, envVars, frame_pc, cursor, needs_display,
                     pending_cold_load, pending_video, using_mpv, video_has_frame,
                     error_message, mpv_file, sel_timer, burst_path, burst_len, burst_loads,
                     burst_resumed>>

\* The same without the record of the frames' sources.
otherVarsOfFrame == <<texVars, preVars, plVars, jobVars, catVars, wtVars, listVars, dbVars,
                      shutVars, hashVars, frame_pc, cursor, needs_display, pending_cold_load,
                      pending_video, using_mpv, video_has_frame, error_message, mpv_file,
                      sel_timer, burst_path, burst_len, burst_loads, burst_resumed>>

InitRend ==
    /\ display_tex = 0
    /\ sh_quit = FALSE
    /\ sh_width = 1
    /\ sh_height = sh_width
    /\ sh_resize = FALSE
    /\ redraw_flag = FALSE
    /\ r_pc = "loop"
    /\ r_w = sh_width
    /\ r_h = sh_height
    /\ r_nw = sh_width
    /\ back = 0
    /\ tex_content = <<"blank", "blank">>
    /\ ui_rpc = "idle"
    /\ ui_size = <<sh_width, sh_height>>
    /\ ui_read = [tex |-> 0, content |-> "none"]

ContentOf(name) == IF name = 0 THEN "none" ELSE tex_content[name]

\* while !shared.quit.load(..)
RLoopTop ==
    /\ r_pc = "loop"
    /\ r_pc' = IF sh_quit THEN "cleanup" ELSE "resize"
    /\ UNCHANGED <<display_tex, sh_quit, sh_width, sh_height, sh_resize, redraw_flag, r_w, r_h,
                   r_nw, back, tex_content, ui_rpc, ui_size, ui_read, has_frame>>
    /\ UNCHANGED otherVarsOfRend

\* if shared.resize.swap(false, AcqRel)
RSwapResize ==
    /\ r_pc = "resize"
    /\ sh_resize' = FALSE
    /\ r_pc' = IF sh_resize THEN "load_w" ELSE "redraw"
    /\ UNCHANGED <<display_tex, sh_quit, sh_width, sh_height, redraw_flag, r_w, r_h, r_nw, back,
                   tex_content, ui_rpc, ui_size, ui_read, has_frame>>
    /\ UNCHANGED otherVarsOfRend

\* let nw = shared.width.load(Relaxed)
RLoadWidth ==
    /\ r_pc = "load_w"
    /\ r_nw' = sh_width
    /\ r_pc' = "load_h"
    /\ UNCHANGED <<display_tex, sh_quit, sh_width, sh_height, sh_resize, redraw_flag, r_w, r_h,
                   back, tex_content, ui_rpc, ui_size, ui_read, has_frame>>
    /\ UNCHANGED otherVarsOfRend

\* let nh = shared.height.load(Relaxed); if nw != w || nh != h { w = nw; h = nh; .. }
RLoadHeight ==
    /\ r_pc = "load_h"
    /\ IF r_nw # r_w \/ sh_height # r_h
       THEN /\ r_w' = r_nw
            /\ r_h' = sh_height
            /\ r_pc' = "realloc_0"
       ELSE /\ r_pc' = "redraw"
            /\ UNCHANGED <<r_w, r_h>>
    /\ UNCHANGED <<display_tex, sh_quit, sh_width, sh_height, sh_resize, redraw_flag, r_nw, back,
                   tex_content, ui_rpc, ui_size, ui_read, has_frame>>
    /\ UNCHANGED otherVarsOfRend

\* gl::TexImage2D(.., w, h, .., null): the texture gets a new store of the
\* new size; what it held is gone.
realloc(content, i) == [content EXCEPT ![i] = "blank"]

\* for t in &tex { BindTexture; TexImage2D(null) }, one texture at a time
RRealloc(i) ==
    /\ r_pc = IF i = 1 THEN "realloc_0" ELSE "realloc_1"
    /\ tex_content' = realloc(tex_content, i)
    /\ r_pc' = IF i = 1 THEN "realloc_1" ELSE "redraw"
    /\ UNCHANGED <<display_tex, sh_quit, sh_width, sh_height, sh_resize, redraw_flag, r_w, r_h,
                   r_nw, back, ui_rpc, ui_size, ui_read, has_frame>>
    /\ UNCHANGED otherVarsOfRend

\* if redraw_flag.swap(false, AcqRel) { .. } else { sleep(1 ms) }
RSwapRedraw ==
    /\ r_pc = "redraw"
    /\ redraw_flag' = FALSE
    /\ r_pc' = IF redraw_flag THEN "render" ELSE "loop"
    /\ UNCHANGED <<display_tex, sh_quit, sh_width, sh_height, sh_resize, r_w, r_h, r_nw, back,
                   tex_content, ui_rpc, ui_size, ui_read, has_frame>>
    /\ UNCHANGED otherVarsOfRend

\* mpv_render_context_render(..) starts drawing into fbo[back]
RRenderBegin ==
    /\ r_pc = "render"
    /\ tex_content' = [tex_content EXCEPT ![back + 1] = "partial"]
    /\ r_src' = mpv_file
    /\ r_pc' = "finish"
    /\ UNCHANGED <<display_tex, sh_quit, sh_width, sh_height, sh_resize, redraw_flag, r_w, r_h,
                   r_nw, back, ui_rpc, ui_size, ui_read, has_frame, hf_src>>
    /\ UNCHANGED otherVarsOfFrame

\* .. and gl::Finish() returns: the frame is complete
RRenderFinish ==
    /\ r_pc = "finish"
    /\ tex_content' = [tex_content EXCEPT ![back + 1] = "frame"]
    /\ r_pc' = "publish"
    /\ UNCHANGED <<display_tex, sh_quit, sh_width, sh_height, sh_resize, redraw_flag, r_w, r_h,
                   r_nw, back, ui_rpc, ui_size, ui_read, has_frame>>
    /\ UNCHANGED otherVarsOfRend

\* shared.display_tex.store(tex[back], Release)
RPublish ==
    /\ r_pc = "publish"
    /\ display_tex' = TexName[back + 1]
    /\ r_pc' = "has_frame"
    /\ UNCHANGED <<sh_quit, sh_width, sh_height, sh_resize, redraw_flag, r_w, r_h, r_nw, back,
                   tex_content, ui_rpc, ui_size, ui_read, has_frame>>
    /\ UNCHANGED otherVarsOfRend

swap_back_stays(b) == b

\* back = 1 - back
swap_back(b) == 1 - b

\* shared.has_frame.store(true, Release); back = 1 - back
RHasFrame ==
    /\ r_pc = "has_frame"
    /\ has_frame' = TRUE
    /\ back' = swap_back(back)
    /\ hf_src' = r_src
    /\ r_pc' = "loop"
    /\ UNCHANGED <<display_tex, sh_quit, sh_width, sh_height, sh_resize, redraw_flag, r_w, r_h,
                   r_nw, tex_content, ui_rpc, ui_size, ui_read, r_src>>
    /\ UNCHANGED otherVarsOfFrame

\* Cleanup after the loop: gl::DeleteTextures(2, ..)
RCleanup ==
    /\ r_pc = "cleanup"
    /\ tex_content' = <<"deleted", "deleted">>
    /\ r_pc' = "done"
    /\ UNCHANGED <<display_tex, sh_quit, sh_width, sh_height, sh_resize, redraw_flag, r_w, r_h,
                   r_nw, back, ui_rpc, ui_size, ui_read, has_frame>>
    /\ UNCHANGED otherVarsOfRend

\* mpv's update callback (redraw_cb): a new frame can be rendered
MpvUpdateCallback ==
    /\ r_pc \notin {"cleanup", "done"}
    /\ ~redraw_flag
    /\ redraw_flag' = TRUE
    /\ UNCHANGED <<display_tex, sh_quit, sh_width, sh_height, sh_resize, r_pc, r_w, r_h, r_nw,
                   back, tex_content, ui_rpc, ui_size, ui_read, has_frame>>
    /\ UNCHANGED otherVarsOfRend

\* UI thread, "Signal render thread about resize": the drawable size is
\* (w, h); if it differs from the shared one, store width ..
UiStoreWidth(w, h) ==
    /\ ui_rpc = "idle"
    /\ ~sh_quit
    /\ w # sh_width \/ h # sh_height
    /\ sh_width' = w
    /\ ui_size' = <<w, h>>
    /\ ui_rpc' = "store_h"
    /\ UNCHANGED <<display_tex, sh_quit, sh_height, sh_resize, redraw_flag, r_pc, r_w, r_h, r_nw,
                   back, tex_content, ui_read, has_frame>>
    /\ UNCHANGED otherVarsOfRend

\* .. store height ..
UiStoreHeight ==
    /\ ui_rpc = "store_h"
    /\ sh_height' = ui_size[2]
    /\ ui_rpc' = "store_resize"
    /\ UNCHANGED <<display_tex, sh_quit, sh_width, sh_resize, redraw_flag, r_pc, r_w, r_h, r_nw,
                   back, tex_content, ui_size, ui_read, has_frame>>
    /\ UNCHANGED otherVarsOfRend

\* .. and shared.resize.store(true, Release)
UiStoreResize ==
    /\ ui_rpc = "store_resize"
    /\ sh_resize' = TRUE
    /\ ui_rpc' = "idle"
    /\ UNCHANGED <<display_tex, sh_quit, sh_width, sh_height, redraw_flag, r_pc, r_w, r_h, r_nw,
                   back, tex_content, ui_size, ui_read, has_frame>>
    /\ UNCHANGED otherVarsOfRend

\* UI thread, compositing: mpv_shared.display_tex.load(Acquire)
UiReadDisplayTex ==
    /\ ui_rpc = "idle"
    /\ ~sh_quit
    /\ ui_read' = [tex |-> display_tex, content |-> ContentOf(display_tex)]
    /\ UNCHANGED <<display_tex, sh_quit, sh_width, sh_height, sh_resize, redraw_flag, r_pc, r_w,
                   r_h, r_nw, back, tex_content, ui_rpc, ui_size, has_frame>>
    /\ UNCHANGED otherVarsOfRend

\* UI thread, shutdown: mpv_shared.quit.store(true, Release)
UiQuit ==
    /\ ui_rpc = "idle"
    /\ ~sh_quit
    /\ sh_quit' = TRUE
    /\ UNCHANGED <<display_tex, sh_width, sh_height, sh_resize, redraw_flag, r_pc, r_w, r_h, r_nw,
                   back, tex_content, ui_rpc, ui_size, ui_read, has_frame>>
    /\ UNCHANGED otherVarsOfRend

\* main, after the quit store: the wait for the render thread.
SHUTDOWN_DEADLINE_MS == 500

SHUTDOWN_SLEEP_MS == 10

othersOfShut == <<texVars, preVars, plVars, uiVars, rendVars, jobVars, catVars, wtVars, listVars,
                  dbVars, frameVars, hashVars>>

\* JoinHandle::is_finished(): the thread's closure has returned
is_finished == r_pc = "done"

deadline_never(elapsed) == FALSE

\* start.elapsed() > deadline
deadline_passed(elapsed) == elapsed > SHUTDOWN_DEADLINE_MS

\* loop { if render_thread.is_finished() { join; break }
\*        if start.elapsed() > deadline { break } ... }
SdPoll ==
    /\ sh_quit
    /\ sd_pc = "poll"
    /\ IF is_finished
       THEN sd_joined' = TRUE /\ sd_pc' = "exit"
       ELSE /\ sd_pc' = IF deadline_passed(sd_elapsed) THEN "exit" ELSE "sleep"
            /\ UNCHANGED sd_joined
    /\ UNCHANGED sd_elapsed
    /\ UNCHANGED othersOfShut

\* std::thread::sleep(Duration::from_millis(10)); the clock is followed up
\* to the first reading beyond the deadline.
SdSleep ==
    /\ sd_pc = "sleep"
    /\ sd_pc' = "poll"
    /\ sd_elapsed' = IF sd_elapsed > SHUTDOWN_DEADLINE_MS THEN sd_elapsed
                      ELSE sd_elapsed + SHUTDOWN_SLEEP_MS
    /\ UNCHANGED sd_joined
    /\ UNCHANGED othersOfShut

\* ------------------------------------------------------------------------
\* Job engine: worker_loop, find_work, process_layer and the job queries
\* ------------------------------------------------------------------------
NoHash == ""

NoWork == [file |-> 0, layer |-> "none"]

\* The files table the workers run against.
JobFiles == <<
    [id |-> 1, path |-> "a.png", ext |-> "png", content |-> "h1"],
    [id |-> 2, path |-> "v.mp4", ext |-> "mp4", content |-> "h2"] >>

FileIds == 1..Len(JobFiles)

Workers == 0..(NumWorkers - 1)

LAYERS == <<"hash", "exif", "ai_basic">>

\* Extensions next_missing_exif and next_missing_pnginfo select with LIKE.
EXIF_EXTS == {"jpg", "jpeg", "png", "webp", "gif", "bmp", "tiff"}

PNG_EXTS == {"png"}

othersOfJobs == <<texVars, preVars, plVars, uiVars, rendVars, envVars>>

\* The store after a scan: every file indexed, no layer produced yet.
InitStore ==
    /\ db_hash = [f \in FileIds |-> NoHash]
    /\ db_meta = [f \in FileIds |-> NoHash]
    /\ meta_rows = {}
    /\ meta_width = {}
    /\ meta_pnginfo = {}
    /\ job_fails = {}

\* The store of a later run: every file hashed and linked to its meta row,
\* the dimensions read, generator info still missing.
HashedStore ==
    /\ db_hash = [f \in FileIds |-> JobFiles[f].content]
    /\ db_meta = [f \in FileIds |-> JobFiles[f].content]
    /\ meta_rows = {JobFiles[f].content : f \in FileIds}
    /\ meta_width = {JobFiles[f].content : f \in FileIds}
    /\ meta_pnginfo = {}
    /\ job_fails = {}

\* JobEngine::start: workers and rate updater spawned; t is the turbo flag
\* the UI has set since.
InitEngineWith(t) ==
    /\ turbo = t
    /\ je_quit = FALSE
    /\ stat_active = 0
    /\ w_pc = [w \in Workers |-> "top"]
    /\ w_turbo = [w \in Workers |-> FALSE]
    /\ w_work = [w \in Workers |-> NoWork]
    /\ w_ok = [w \in Workers |-> FALSE]
    /\ rs_pc = "check"
    /\ stop_pc = "idle"
    /\ q_jobs = [w \in Workers |-> 0]
    /\ q_sleeps = [w \in Workers |-> 0]

\* JobEngine::start: lazy mode.
InitEngine == InitEngineWith(FALSE)

\* The engine as the viewer starts it: no `worker` command around.
InitJobs ==
    /\ InitStore
    /\ InitEngine
    /\ cmd_pc = "off"

\* The hash query without its job_fails filter.
next_missing_hash_ignores_fails ==
    {f \in FileIds : db_hash[f] = NoHash}

next_missing_hash ==
    {f \in FileIds : db_hash[f] = NoHash /\ <<f, "hash">> \notin job_fails}

\* The exif query without its job_fails filter.
next_missing_exif_ignores_fails ==
    {f \in FileIds : /\ db_meta[f] \in meta_rows
                     /\ db_meta[f] \notin meta_width
                     /\ JobFiles[f].ext \in EXIF_EXTS}

next_missing_exif ==
    {f \in FileIds : /\ db_meta[f] \in meta_rows
                     /\ db_meta[f] \notin meta_width
                     /\ <<f, "exif">> \notin job_fails
                     /\ JobFiles[f].ext \in EXIF_EXTS}

next_missing_pnginfo ==
    {f \in FileIds : /\ db_meta[f] \in meta_rows
                     /\ db_meta[f] \notin meta_pnginfo
                     /\ <<f, "ai_basic">> \notin job_fails
                     /\ JobFiles[f].ext \in PNG_EXTS}

next_missing(layer) ==
    IF layer = "hash" THEN next_missing_hash
    ELSE IF layer = "exif" THEN next_missing_exif
    ELSE next_missing_pnginfo

\* find_work: the first layer, in LAYERS order, whose query returns a row;
\* the query returns any one of its rows (ORDER BY RANDOM() LIMIT 1).
RECURSIVE find_work_from(_)
find_work_from(i) ==
    IF i > Len(LAYERS) THEN {}
    ELSE IF next_missing(LAYERS[i]) # {}
         THEN {[file |-> f, layer |-> LAYERS[i]] : f \in next_missing(LAYERS[i])}
         ELSE find_work_from(i + 1)

find_work == find_work_from(1)

\* A loop head that lets every worker run in lazy mode.
lazy_nap_never(worker_id, t) == FALSE

\* if worker_id > 0 && !turbo { sleep; continue }
lazy_nap(worker_id, t) == worker_id > 0 /\ ~t

\* A loop head that never sees the quit flag.
quit_seen_never(q) == FALSE

\* if quit.load(Ordering::Relaxed) { break; }
quit_seen(q) == q

\* Loop head: quit check, turbo load; workers 1+ sleep 2 s in lazy mode.
WTop(w) ==
    /\ w_pc[w] = "top"
    /\ IF quit_seen(je_quit)
       THEN /\ w_pc' = [w_pc EXCEPT ![w] = "exited"]
            /\ UNCHANGED w_turbo
       ELSE /\ w_turbo' = [w_turbo EXCEPT ![w] = turbo]
            /\ w_pc' = [w_pc EXCEPT ![w] = IF lazy_nap(w, turbo) THEN "sleep" ELSE "find"]
    /\ UNCHANGED <<db_hash, db_meta, meta_rows, meta_width, meta_pnginfo, job_fails, turbo,
                   je_quit, stat_active, w_work, w_ok>>
    /\ UNCHANGED <<rs_pc, stop_pc, cmd_pc, q_jobs, q_sleeps>>
    /\ UNCHANGED othersOfJobs

\* let work = find_work(&db); no work: idle sleep
WFindWork(w) ==
    /\ w_pc[w] = "find"
    /\ IF find_work = {}
       THEN /\ w_pc' = [w_pc EXCEPT ![w] = "sleep"]
            /\ w_work' = [w_work EXCEPT ![w] = NoWork]
       ELSE /\ \E work \in find_work : w_work' = [w_work EXCEPT ![w] = work]
            /\ w_pc' = [w_pc EXCEPT ![w] = "found"]
    /\ UNCHANGED <<db_hash, db_meta, meta_rows, meta_width, meta_pnginfo, job_fails, turbo,
                   je_quit, stat_active, w_turbo, w_ok>>
    /\ UNCHANGED <<rs_pc, stop_pc, cmd_pc, q_jobs, q_sleeps>>
    /\ UNCHANGED othersOfJobs

\* stats.active.fetch_add(1); process_layer(..) is entered
WBegin(w) ==
    /\ w_pc[w] = "found"
    /\ stat_active' = stat_active + 1
    /\ w_pc' = [w_pc EXCEPT ![w] = "processing"]
    /\ UNCHANGED <<db_hash, db_meta, meta_rows, meta_width, meta_pnginfo, job_fails, turbo,
                   je_quit, w_turbo, w_work, w_ok>>
    /\ UNCHANGED <<rs_pc, stop_pc, cmd_pc, q_jobs, q_sleeps>>
    /\ UNCHANGED othersOfJobs

\* process_layer returns: Ok after the layer's write to the store
\* (file_set_hash_meta, meta_set_dimensions, meta_set_pnginfo), or Err.
WProcess(w, ok) ==
    /\ w_pc[w] = "processing"
    /\ w_ok' = [w_ok EXCEPT ![w] = ok]
    /\ w_pc' = [w_pc EXCEPT ![w] = "processed"]
    /\ LET f == w_work[w].file
           layer == w_work[w].layer
       IN  IF ~ok
           THEN UNCHANGED <<db_hash, db_meta, meta_rows, meta_width, meta_pnginfo>>
           ELSE IF layer = "hash"
           THEN /\ meta_rows' = meta_rows \cup {JobFiles[f].content}
                /\ db_hash' = [db_hash EXCEPT ![f] = JobFiles[f].content]
                /\ db_meta' = [db_meta EXCEPT ![f] = JobFiles[f].content]
                /\ UNCHANGED <<meta_width, meta_pnginfo>>
           ELSE IF layer = "exif"
           THEN /\ meta_width' = IF db_meta[f] # NoHash
                                 THEN meta_width \cup {db_meta[f]} ELSE meta_width
                /\ UNCHANGED <<db_hash, db_meta, meta_rows, meta_pnginfo>>
           ELSE /\ meta_pnginfo' = IF db_meta[f] # NoHash
                                   THEN meta_pnginfo \cup {db_meta[f]} ELSE meta_pnginfo
                /\ UNCHANGED <<db_hash, db_meta, meta_rows, meta_width>>
    /\ UNCHANGED <<job_fails, turbo, je_quit, stat_active, w_turbo,
                   w_work>>
    /\ q_jobs' = [q_jobs EXCEPT ![w] = IF je_quit THEN Min(@ + 1, 2) ELSE @]
    /\ UNCHANGED <<rs_pc, stop_pc, cmd_pc, q_sleeps>>
    /\ UNCHANGED othersOfJobs

\* stats.active.fetch_sub(1); Err: record_job_fail (INSERT OR REPLACE);
\* then the throttle sleep.  The done/failed totals of JobStats only feed
\* the status line and are not part of the state here.
WRecord(w) ==
    /\ w_pc[w] = "processed"
    /\ stat_active' = stat_active - 1
    /\ job_fails' = IF w_ok[w] THEN job_fails
                    ELSE job_fails \cup {<<w_work[w].file, w_work[w].layer>>}
    /\ w_pc' = [w_pc EXCEPT ![w] = "sleep"]
    /\ w_work' = [w_work EXCEPT ![w] = NoWork]      \* the iteration's locals go out of scope
    /\ w_ok' = [w_ok EXCEPT ![w] = FALSE]
    /\ UNCHANGED <<db_hash, db_meta, meta_rows, meta_width, meta_pnginfo, turbo, je_quit,
                   w_turbo>>
    /\ UNCHANGED <<rs_pc, stop_pc, cmd_pc, q_jobs, q_sleeps>>
    /\ UNCHANGED othersOfJobs

\* thread::sleep(..) returns: lazy nap, throttle sleep or idle sleep
WWake(w) ==
    /\ w_pc[w] = "sleep"
    /\ w_pc' = [w_pc EXCEPT ![w] = "top"]
    /\ UNCHANGED <<db_hash, db_meta, meta_rows, meta_width, meta_pnginfo, job_fails, turbo,
                   je_quit, stat_active, w_turbo, w_work, w_ok>>
    /\ q_sleeps' = [q_sleeps EXCEPT ![w] = IF je_quit THEN Min(@ + 1, 2) ELSE @]
    /\ UNCHANGED <<rs_pc, stop_pc, cmd_pc, q_jobs>>
    /\ UNCHANGED othersOfJobs

\* UI key "-": stats.turbo.store(!was)
ToggleTurbo ==
    /\ cmd_pc = "off"
    /\ ~je_quit
    /\ turbo' = ~turbo
    /\ UNCHANGED <<db_hash, db_meta, meta_rows, meta_width, meta_pnginfo, job_fails, je_quit,
                   stat_active, w_pc, w_turbo, w_work, w_ok>>
    /\ UNCHANGED <<rs_pc, stop_pc, cmd_pc, q_jobs, q_sleeps>>
    /\ UNCHANGED othersOfJobs

\* JobEngine::stop, called at the viewer's shutdown: quit.store(true), then
\* the joins begin
EngineStop ==
    /\ cmd_pc = "off"
    /\ stop_pc = "idle"
    /\ je_quit' = TRUE
    /\ stop_pc' = "joining"
    /\ UNCHANGED <<db_hash, db_meta, meta_rows, meta_width, meta_pnginfo, job_fails, turbo,
                   stat_active, w_pc, w_turbo, w_work, w_ok>>
    /\ UNCHANGED <<rs_pc, cmd_pc, q_jobs, q_sleeps>>
    /\ UNCHANGED othersOfJobs

\* JobEngine::stop: every handle has been joined, stop returns
StopJoined ==
    /\ stop_pc = "joining"
    /\ \A w \in Workers : w_pc[w] = "exited"
    /\ rs_pc = "exited"
    /\ stop_pc' = "returned"
    /\ UNCHANGED <<db_hash, db_meta, meta_rows, meta_width, meta_pnginfo, job_fails, turbo,
                   je_quit, stat_active, w_pc, w_turbo, w_work, w_ok, rs_pc, cmd_pc, q_jobs,
                   q_sleeps>>
    /\ UNCHANGED othersOfJobs

\* Rate updater: while !quit.load()
RateCheck ==
    /\ rs_pc = "check"
    /\ rs_pc' = IF je_quit THEN "exited" ELSE "sleep"
    /\ UNCHANGED <<db_hash, db_meta, meta_rows, meta_width, meta_pnginfo, job_fails, turbo,
                   je_quit, stat_active, w_pc, w_turbo, w_work, w_ok, stop_pc, cmd_pc, q_jobs,
                   q_sleeps>>
    /\ UNCHANGED othersOfJobs

\* Rate updater: sleep(5 s) returns; stats.update_rate()
RateUpdate ==
    /\ rs_pc = "sleep"
    /\ rs_pc' = "check"
    /\ UNCHANGED <<db_hash, db_meta, meta_rows, meta_width, meta_pnginfo, job_fails, turbo,
                   je_quit, stat_active, w_pc, w_turbo, w_work, w_ok, stop_pc, cmd_pc, q_jobs,
                   q_sleeps>>
    /\ UNCHANGED othersOfJobs

\* `lv worker` (cli.rs): after JobEngine::start, stats.turbo.store(true)
CmdSetTurbo ==
    /\ cmd_pc = "start"
    /\ turbo' = TRUE
    /\ cmd_pc' = "poll"
    /\ UNCHANGED <<db_hash, db_meta, meta_rows, meta_width, meta_pnginfo, job_fails, je_quit,
                   stat_active, w_pc, w_turbo, w_work, w_ok, rs_pc, stop_pc, q_jobs, q_sleeps>>
    /\ UNCHANGED othersOfJobs

\* The command's sleep of 2 s or 500 ms has ended: meanwhile every worker
\* has reached process_layer or a sleep of its own (the statements between
\* them take no such time).
AfterSleep == \A w \in Workers : w_pc[w] \in {"processing", "sleep", "exited"}

\* sleep(2 s); active = stats.active.load(); if active == 0 { sleep(500 ms) ..
CmdPoll ==
    /\ cmd_pc = "poll"
    /\ AfterSleep
    /\ cmd_pc' = IF stat_active = 0 THEN "recheck" ELSE "poll"
    /\ UNCHANGED <<db_hash, db_meta, meta_rows, meta_width, meta_pnginfo, job_fails, turbo,
                   je_quit, stat_active, w_pc, w_turbo, w_work, w_ok, rs_pc, stop_pc, q_jobs,
                   q_sleeps>>
    /\ UNCHANGED othersOfJobs

\* active2 = stats.active.load(); if active2 == 0 { engine.stop() .. }
CmdRecheck ==
    /\ cmd_pc = "recheck"
    /\ AfterSleep
    /\ IF stat_active = 0
       THEN /\ je_quit' = TRUE
            /\ stop_pc' = "joining"
            /\ cmd_pc' = "stopping"
       ELSE /\ cmd_pc' = "poll"
            /\ UNCHANGED <<je_quit, stop_pc>>
    /\ UNCHANGED <<db_hash, db_meta, meta_rows, meta_width, meta_pnginfo, job_fails, turbo,
                   stat_active, w_pc, w_turbo, w_work, w_ok, rs_pc, q_jobs, q_sleeps>>
    /\ UNCHANGED othersOfJobs

\* engine.stop() has returned; println!("Done. ..."); return
CmdReturn ==
    /\ cmd_pc = "stopping"
    /\ stop_pc = "returned"
    /\ cmd_pc' = "returned"
    /\ UNCHANGED <<db_hash, db_meta, meta_rows, meta_width, meta_pnginfo, job_fails, turbo,
                   je_quit, stat_active, w_pc, w_turbo, w_work, w_ok, rs_pc, stop_pc, q_jobs,
                   q_sleeps>>
    /\ UNCHANGED othersOfJobs

\* ------------------------------------------------------------------------
\* The disk, the files table, the scanner and the watcher thread
\* (db.rs, scanner.rs, watcher.rs)
\* ------------------------------------------------------------------------
\* What fs::metadata reports of a file: its length and its modification
\* time in seconds since the epoch; NoStat when the path does not exist.
NoStat == [size |-> -1, secs |-> 0]

OldStat == [size |-> 10, secs |-> 0]

NewStat == [size |-> 10, secs |-> 86461]

\* A NULL size or modified_at column.
NullSize == -1

NullText == <<>>

\* The files the environment creates, rewrites, touches and removes, and
\* the directories the UI asks the watcher for.
FsFiles == {1}

FsDirs == {Files[f].dir : f \in FsFiles}

\* Text is a sequence of characters.
DigitChars == <<"0", "1", "2", "3", "4", "5", "6", "7", "8", "9">>

\* format!("{}", n) of an unsigned number
RECURSIVE decimal(_)
decimal(n) == IF n < 10 THEN <<DigitChars[n + 1]>>
              ELSE Append(decimal(n \div 10), DigitChars[(n % 10) + 1])

\* format!("{:0w$}", n)
RECURSIVE zero_pad(_, _)
zero_pad(t, w) == IF Len(t) >= w THEN t ELSE zero_pad(<<"0">> \o t, w)

is_leap(y) == (y % 4 = 0 /\ y % 100 # 0) \/ y % 400 = 0

\* The year loop of iso_lite: <<year, days remaining in it>>.
RECURSIVE iso_year(_, _)
iso_year(y, remaining) ==
    LET days_in_year == IF is_leap(y) THEN 366 ELSE 365
    IN  IF remaining < days_in_year THEN <<y, remaining>>
        ELSE iso_year(y + 1, remaining - days_in_year)

iso_months(y) == <<31, IF is_leap(y) THEN 29 ELSE 28, 31, 30, 31, 30, 31, 31, 30, 31, 30, 31>>

\* The month loop of iso_lite: <<month, days remaining in it>>.
RECURSIVE iso_month(_, _, _)
iso_month(months, mo, remaining) ==
    IF mo > Len(months) \/ remaining < months[mo] THEN <<mo, remaining>>
    ELSE iso_month(months, mo + 1, remaining - months[mo])

iso_lite(epoch_secs) ==
    LET days == epoch_secs \div 86400
        time == epoch_secs % 86400
        h == time \div 3600
        m == (time % 3600) \div 60
        sec == time % 60
        yr == iso_year(1970, days)
        mr == iso_month(iso_months(yr[1]), 1, yr[2])
        d == mr[2] + 1
    IN  zero_pad(decimal(yr[1]), 4) \o <<"-">> \o zero_pad(decimal(mr[1]), 2) \o <<"-">>
        \o zero_pad(decimal(d), 2) \o <<"T">> \o zero_pad(decimal(h), 2) \o <<":">>
        \o zero_pad(decimal(m), 2) \o <<":">> \o zero_pad(decimal(sec), 2) \o <<"Z">>

\* The scanner's modified_at of a stat: iso_lite of the seconds.
scanner_mtime(st) == IF st = NoStat THEN NullText ELSE iso_lite(st.secs)

\* The watcher's modified_at of a stat: the seconds in decimal.
watcher_mtime(st) == IF st = NoStat THEN NullText ELSE decimal(st.secs)

stat_size(st) == IF st = NoStat THEN NullSize ELSE st.size

\* A lookup that finds no row.
file_lookup_misses(f) == FALSE

\* Db::file_lookup
file_lookup(f) == f \in cat_rows

\* The directories WalkDir::new(root) visits: root and the directories
\* below it; "/" is above every directory of Files.
walked(root) == IF root = "/" THEN {"/"} \cup {Files[f].dir : f \in 1..Len(Files)} ELSE {root}

\* The id SQLite gives a row inserted into a table whose ids are ids: one
\* more than the largest id in the table (INTEGER PRIMARY KEY).
next_rowid(ids) == IF ids = {} THEN 1 ELSE 1 + CHOOSE m \in ids : \A n \in ids : n <= m

\* The row of file f written by file_insert or file_update_meta with the
\* given size and modified_at: hash_sha512 and meta_id are NULL afterwards
\* (a new row has none, file_update_meta clears them); a new row gets the
\* next id and is not temporary.
WriteRow(f, size, mtime) ==
    /\ cat_rows' = cat_rows \cup {f}
    /\ cat_id' = IF f \in cat_rows THEN cat_id
                 ELSE [cat_id EXCEPT ![f] = next_rowid({cat_id[g] : g \in cat_rows})]
    /\ cat_temp' = IF f \in cat_rows THEN cat_temp ELSE cat_temp \ {f}
    /\ cat_size' = [cat_size EXCEPT ![f] = size]
    /\ cat_mtime' = [cat_mtime EXCEPT ![f] = mtime]
    /\ cat_hash' = cat_hash \ {f}
    /\ idx_stat' = [idx_stat EXCEPT ![f] = disk[f]]

\* The files table after `discover` has walked directory dir: a changed row
\* is rewritten, a missing row inserted (the walk visits the files in the
\* order of their names), any other row left alone.
discovered(dir) ==
    LET seen == {f \in 1..Len(Files) : Files[f].dir \in walked(dir) /\ disk[f] # NoStat}
        inserted == seen \ cat_rows
        written == {f \in seen : \/ ~file_lookup(f)
                                 \/ cat_size[f] # stat_size(disk[f])
                                 \/ cat_mtime[f] # scanner_mtime(disk[f])}
        first_id == next_rowid({cat_id[g] : g \in cat_rows})
    IN  [rows |-> cat_rows \cup seen,
         id |-> [f \in 1..Len(Files) |->
                    IF f \in inserted
                    THEN first_id + Cardinality({g \in inserted : g < f})
                    ELSE cat_id[f]],
         size |-> [f \in 1..Len(Files) |-> IF f \in written THEN stat_size(disk[f])
                                           ELSE cat_size[f]],
         mtime |-> [f \in 1..Len(Files) |-> IF f \in written THEN scanner_mtime(disk[f])
                                            ELSE cat_mtime[f]],
         hash |-> cat_hash \ written,
         stat |-> [f \in 1..Len(Files) |-> IF f \in written THEN disk[f] ELSE idx_stat[f]],
         count |-> Cardinality(written)]

othersOfEnv == <<texVars, preVars, plVars, uiVars, rendVars, jobVars, listVars, dbVars, auxVars>>

\* The disk at the start and the files table after earlier runs scanned
\* the directories of StartRows, with the rows in hashed hashed by the job
\* engine since and the rows in temp marked temporary.
InitCatalogue(hashed, temp) ==
    /\ disk = [f \in 1..Len(Files) |-> IF Files[f].on_disk THEN OldStat ELSE NoStat]
    /\ cat_rows = StartRows
    /\ cat_id = [f \in 1..Len(Files) |-> IF f \in StartRows THEN f ELSE 0]
    /\ cat_temp = temp
    /\ cat_size = [f \in 1..Len(Files) |-> IF f \in StartRows THEN OldStat.size ELSE NullSize]
    /\ cat_mtime = [f \in 1..Len(Files) |-> IF f \in StartRows THEN scanner_mtime(OldStat)
                                            ELSE NullText]
    /\ cat_hash = hashed
    /\ idx_stat = [f \in 1..Len(Files) |-> IF Files[f].on_disk THEN OldStat ELSE NoStat]
    /\ fs_ops = 0

\* FsWatcher::start with the directories in watched marked watched in the
\* database and the commands in queued sent since: the thread is at the top
\* of its loop.
InitWatcherThread(watched, queued) ==
    /\ wt_pc = "top"
    /\ wt_quit = FALSE
    /\ wt_watching = watched
    /\ cmd_rx = queued
    /\ nrx = <<>>
    /\ fs_rx = <<>>
    /\ cmds_sent = 0
    /\ wt_seen = <<>>
    /\ wt_applied = <<>>

\* notify's callback: an event of a watched directory is sent to nrx.
notified(kind, f) ==
    IF Files[f].dir \in wt_watching THEN Append(nrx, [kind |-> kind, file |-> f]) ELSE nrx

\* The environment writes file f: it exists afterwards with a new stat.
FsWrite(f, st) ==
    /\ fs_ops < MaxFsOps
    /\ st # disk[f]
    /\ disk' = [disk EXCEPT ![f] = st]
    /\ nrx' = notified(IF disk[f] = NoStat THEN "create" ELSE "modify", f)
    /\ fs_ops' = fs_ops + 1
    /\ UNCHANGED <<cat_rows, cat_id, cat_temp, cat_size, cat_mtime, cat_hash, idx_stat>>
    /\ UNCHANGED <<wt_pc, wt_quit, wt_watching, cmd_rx, fs_rx, cmds_sent, wt_seen, wt_applied>>
    /\ UNCHANGED othersOfEnv

\* The environment changes the permissions of file f: a modify event, the
\* length and the modification time stay.
FsTouch(f) ==
    /\ fs_ops < MaxFsOps
    /\ disk[f] # NoStat
    /\ nrx' = notified("modify", f)
    /\ fs_ops' = fs_ops + 1
    /\ UNCHANGED <<disk, cat_rows, cat_id, cat_temp, cat_size, cat_mtime, cat_hash,
                   idx_stat>>
    /\ UNCHANGED <<wt_pc, wt_quit, wt_watching, cmd_rx, fs_rx, cmds_sent, wt_seen, wt_applied>>
    /\ UNCHANGED othersOfEnv

\* The environment removes file f.
FsRemove(f) ==
    /\ fs_ops < MaxFsOps
    /\ disk[f] # NoStat
    /\ disk' = [disk EXCEPT ![f] = NoStat]
    /\ nrx' = notified("remove", f)
    /\ fs_ops' = fs_ops + 1
    /\ UNCHANGED <<cat_rows, cat_id, cat_temp, cat_size, cat_mtime, cat_hash, idx_stat>>
    /\ UNCHANGED <<wt_pc, wt_quit, wt_watching, cmd_rx, fs_rx, cmds_sent, wt_seen, wt_applied>>
    /\ UNCHANGED othersOfEnv

\* scanner::discover(db, dir)
Discover(dir) ==
    LET r == discovered(dir)
    IN  /\ r.count > 0
        /\ cat_rows' = r.rows
        /\ cat_id' = r.id
        /\ cat_size' = r.size
        /\ cat_mtime' = r.mtime
        /\ cat_hash' = r.hash
        /\ idx_stat' = r.stat
        /\ UNCHANGED <<disk, cat_temp, fs_ops, wtVars>>
        /\ UNCHANGED othersOfEnv

\* FsWatcher::watch_dir: cmd_tx.send(WatchCmd::Watch(dir))
WatchDir(dir) ==
    /\ cmds_sent < MaxCmds
    /\ cmd_rx' = Append(cmd_rx, [op |-> "Watch", dir |-> dir])
    /\ cmds_sent' = cmds_sent + 1
    /\ UNCHANGED <<wt_pc, wt_quit, wt_watching, nrx, fs_rx, wt_seen, wt_applied, catVars>>
    /\ UNCHANGED othersOfEnv

\* FsWatcher::unwatch_dir: cmd_tx.send(WatchCmd::Unwatch(dir))
UnwatchDir(dir) ==
    /\ cmds_sent < MaxCmds
    /\ cmd_rx' = Append(cmd_rx, [op |-> "Unwatch", dir |-> dir])
    /\ cmds_sent' = cmds_sent + 1
    /\ UNCHANGED <<wt_pc, wt_quit, wt_watching, nrx, fs_rx, wt_seen, wt_applied, catVars>>
    /\ UNCHANGED othersOfEnv

\* FsWatcher::stop: quit.store(true)
WatcherStop ==
    /\ ~wt_quit
    /\ wt_quit' = TRUE
    /\ UNCHANGED <<wt_pc, wt_watching, cmd_rx, nrx, fs_rx, cmds_sent, wt_seen, wt_applied,
                   catVars>>
    /\ UNCHANGED othersOfEnv

\* A try_recv that takes the newest command of the channel.
try_recv_newest(q) == [cmd |-> q[Len(q)], rest |-> SubSeq(q, 1, Len(q) - 1)]

\* cmd_rx.try_recv() on a channel that holds a command: the oldest one.
try_recv(q) == [cmd |-> Head(q), rest |-> Tail(q)]

\* while !quit.load() { .. }: an iteration begins, or the thread ends.
WtTop ==
    /\ wt_pc = "top"
    /\ wt_pc' = IF wt_quit THEN "exited" ELSE "drain"
    /\ wt_seen' = cmd_rx
    /\ wt_applied' = <<>>
    /\ UNCHANGED <<wt_quit, wt_watching, cmd_rx, nrx, fs_rx, cmds_sent, catVars>>
    /\ UNCHANGED othersOfEnv

\* while let Ok(cmd) = cmd_rx.try_recv() { watcher.watch / watcher.unwatch }
WtDrain ==
    /\ wt_pc = "drain"
    /\ IF cmd_rx # <<>>
       THEN LET r == try_recv(cmd_rx)
            IN  /\ cmd_rx' = r.rest
                /\ wt_watching' = IF r.cmd.op = "Watch" THEN wt_watching \cup {r.cmd.dir}
                                  ELSE wt_watching \ {r.cmd.dir}
                /\ wt_applied' = Append(wt_applied, r.cmd)
                /\ wt_pc' = "drain"
       ELSE /\ wt_pc' = "recv"
            /\ UNCHANGED <<cmd_rx, wt_watching, wt_applied>>
    /\ UNCHANGED <<wt_quit, nrx, fs_rx, cmds_sent, wt_seen, catVars>>
    /\ UNCHANGED othersOfEnv

\* nrx.recv_timeout(200 ms) timed out: continue
WtTimeout ==
    /\ wt_pc = "recv"
    /\ nrx = <<>>
    /\ wt_pc' = "top"
    /\ UNCHANGED <<wt_quit, wt_watching, cmd_rx, nrx, fs_rx, cmds_sent, wt_seen, wt_applied,
                   catVars>>
    /\ UNCHANGED othersOfEnv

\* nrx.recv_timeout returned an event: handle_event(&db, &tx, event)
WtHandleEvent ==
    /\ wt_pc = "recv"
    /\ nrx # <<>>
    /\ LET event == Head(nrx)
           f == event.file
           dir == Files[f].dir
           size == stat_size(disk[f])
           mtime == watcher_mtime(disk[f])
       IN  IF event.kind \in {"create", "modify"}
           THEN /\ IF file_lookup(f)
                   THEN IF cat_size[f] # size \/ cat_mtime[f] # mtime
                        THEN WriteRow(f, size, mtime)
                        ELSE UNCHANGED <<cat_rows, cat_id, cat_temp, cat_size, cat_mtime,
                                         cat_hash, idx_stat>>
                   ELSE WriteRow(f, size, mtime)
                /\ fs_rx' = Append(fs_rx, [kind |-> "Changed", dir |-> dir])
           ELSE IF file_lookup(f)
                THEN /\ cat_rows' = cat_rows \ {f}
                     /\ cat_id' = [cat_id EXCEPT ![f] = 0]
                     /\ cat_temp' = cat_temp \ {f}
                     /\ cat_hash' = cat_hash \ {f}
                     /\ fs_rx' = Append(fs_rx, [kind |-> "Removed", dir |-> dir])
                     /\ UNCHANGED <<cat_size, cat_mtime, idx_stat>>
                ELSE UNCHANGED <<cat_rows, cat_id, cat_temp, cat_size, cat_mtime, cat_hash,
                                 idx_stat, fs_rx>>
    /\ nrx' = Tail(nrx)
    /\ wt_pc' = "top"
    /\ UNCHANGED <<disk, fs_ops, wt_quit, wt_watching, cmd_rx, cmds_sent, wt_seen, wt_applied>>
    /\ UNCHANGED othersOfEnv

\* ------------------------------------------------------------------------
\* The visible list: directory mode, collection mode, watcher refresh,
\* keys and drops (main.rs, db.rs)
\* ------------------------------------------------------------------------
\* collection_mode = None
NoMode == -1

\* files.get(cursor) of an empty list or past its end: no id.
NoId == 0

\* The directories of Files in the order of their paths.
AllDirs == <<"/d1", "/d2", "/d3", "/ext">>

\* The rows of the files in S as FileEntry values, ORDER BY path (the
\* indices of Files follow the order of the paths).
RECURSIVE sorted_entries(_, _)
sorted_entries(ids, S) ==
    IF S = {} THEN <<>>
    ELSE LET f == CHOOSE f \in S : \A g \in S : f <= g
         IN  <<[id |-> ids[f], file |-> f]>> \o sorted_entries(ids, S \ {f})

\* Db::files_by_dir
files_by_dir(dir) == sorted_entries(cat_id, {f \in cat_rows : Files[f].dir = dir})

\* Db::files_by_collection for collection 0 (temporary = 0) and
\* collection 1 (temporary = 1)
files_by_collection(c) ==
    sorted_entries(cat_id, IF c = 1 THEN cat_rows \cap cat_temp ELSE cat_rows \ cat_temp)

has_rows(dir) == \E f \in cat_rows : Files[f].dir = dir

\* Db::dirs: SELECT DISTINCT dir FROM files ORDER BY dir
dirs == SelectSeq(AllDirs, has_rows)

\* iter().position(..) + 1, 0 for None
position_of_dir(list, dir) ==
    IF \E i \in 1..Len(list) : list[i] = dir
    THEN CHOOSE i \in 1..Len(list) : list[i] = dir /\ \A j \in 1..(i - 1) : list[j] # dir
    ELSE 0

\* Db::navigate_dir: the directory delta places from current_dir, "" for None
navigate_dir(dir, delta) ==
    IF dirs = <<>> THEN ""
    ELSE LET found == position_of_dir(dirs, dir)
             cur_idx == IF found = 0 THEN 1 ELSE found
             new_idx == Max(1, Min(cur_idx + delta, Len(dirs)))
         IN  IF new_idx = cur_idx THEN "" ELSE dirs[new_idx]

\* files.iter().position(|f| f.id == id) + 1, 0 for None
position_of_id(list, id) ==
    IF \E i \in 1..Len(list) : list[i].id = id
    THEN CHOOSE i \in 1..Len(list) : list[i].id = id /\ \A j \in 1..(i - 1) : list[j].id # id
    ELSE 0

\* files.iter().position(|f| f.path == path) + 1, 0 for None
position_of_file(list, f) ==
    IF \E i \in 1..Len(list) : list[i].file = f
    THEN CHOOSE i \in 1..Len(list) : list[i].file = f
    ELSE 0

\* files.get(cursor).map(|f| f.id); the model's cursor is the code's plus one
id_at(list, cur) == IF cur \in 1..Len(list) THEN list[cur].id ELSE NoId

\* A refresh that puts the cursor on the first entry when its file is gone.
refresh_cursor_first(new_files, old_id, cur) ==
    IF old_id # NoId /\ position_of_id(new_files, old_id) # 0
    THEN position_of_id(new_files, old_id)
    ELSE 1

\* old_id.and_then(|id| position(id)).unwrap_or(cursor.min(len.saturating_sub(1)))
refresh_cursor(new_files, old_id, cur) ==
    IF old_id # NoId /\ position_of_id(new_files, old_id) # 0
    THEN position_of_id(new_files, old_id)
    ELSE Min(cur, Max(Len(new_files), 1))

\* A refresh that always asks for the display step.
refresh_redisplays_always(new_id, old_id) == TRUE

\* if new_id != old_id { needs_display = true }
refresh_redisplays(new_id, old_id) == new_id # old_id

\* The fields of the UI that a list handler leaves alone.
uiRest == <<pending_cold_load, pending_video, using_mpv, video_has_frame, has_frame,
            error_message, mpv_file, sel_timer, burst_path, burst_len, burst_loads,
            burst_resumed>>

othersOfList == <<texVars, preVars, plVars, rendVars, jobVars, dbVars, auxVars>>

\* Startup with a file of an untracked directory on the command line, the
\* file now under the cursor: its directory is tracked, its files are
\* temporary (as are the files of the directories opened so before), the
\* viewer shows collection 1 and has asked the watcher for the directory.
InitList ==
    /\ collection_mode = 1
    /\ files = files_by_collection(1)
    /\ current_dir = Files[cursor].dir
    /\ watched_dir = Files[cursor].dir
    /\ dir_rows = {[path |-> Files[f].dir, recursive |-> FALSE] : f \in StartRows}
    /\ list_ops = 0

\* "Drain filesystem watcher events": one FsEvent taken from fs_rx.
WatcherRefresh ==
    /\ frame_pc = "events"
    /\ fs_rx # <<>>
    /\ LET ev == Head(fs_rx)
           old_id == id_at(files, cursor)
           requery == collection_mode # NoMode \/ ev.dir = current_dir
           new_files == IF collection_mode # NoMode THEN files_by_collection(collection_mode)
                        ELSE IF ev.dir = current_dir THEN files_by_dir(current_dir)
                        ELSE files
           new_cursor == IF requery THEN refresh_cursor(new_files, old_id, cursor) ELSE cursor
           new_id == id_at(new_files, new_cursor)
       IN  /\ files' = new_files
           /\ cursor' = new_cursor
           /\ needs_display' = IF refresh_redisplays(new_id, old_id) THEN TRUE
                               ELSE needs_display
    /\ fs_rx' = Tail(fs_rx)
    /\ UNCHANGED <<frame_pc, uiRest, collection_mode, current_dir, watched_dir, dir_rows,
                   list_ops, catVars>>
    /\ UNCHANGED <<wt_pc, wt_quit, wt_watching, cmd_rx, nrx, cmds_sent, wt_seen, wt_applied>>
    /\ UNCHANGED othersOfList

\* Ctrl+0 / Ctrl+1: show the collection, or leave it when it is shown.
KeyCollection(c) ==
    /\ frame_pc = "events"
    /\ list_ops < MaxListOps
    /\ IF collection_mode = c
       THEN /\ collection_mode' = NoMode
            /\ files' = files_by_dir(current_dir)
       ELSE /\ collection_mode' = c
            /\ files' = files_by_collection(c)
    /\ cursor' = 1
    /\ needs_display' = TRUE
    /\ frame_pc' = "cold"
    /\ list_ops' = list_ops + 1
    /\ UNCHANGED <<uiRest, current_dir, watched_dir, dir_rows, catVars, wtVars>>
    /\ UNCHANGED othersOfList

\* A switch_dir whose "last" is the length of the list, not length - 1.
switch_dir_past_end(dir, pos) ==
    LET new_files == files_by_dir(dir)
    IN  IF new_files = <<>>
        THEN UNCHANGED <<files, current_dir, cursor>>
        ELSE /\ files' = new_files
             /\ current_dir' = dir
             /\ cursor' = IF pos = "last" THEN Len(new_files) + 1 ELSE 1

\* switch_dir: the list of dir, the cursor on its first or last entry;
\* nothing when dir has no files.
switch_dir(dir, pos) ==
    LET new_files == files_by_dir(dir)
    IN  IF new_files = <<>>
        THEN UNCHANGED <<files, current_dir, cursor>>
        ELSE /\ files' = new_files
             /\ current_dir' = dir
             /\ cursor' = IF pos = "last" THEN Max(Len(new_files), 1) ELSE 1

\* j: the next file, or the first file of the next directory.
KeyJ ==
    /\ frame_pc = "events"
    /\ list_ops < MaxListOps
    /\ IF cursor < Len(files)
       THEN /\ cursor' = cursor + 1
            /\ needs_display' = TRUE
            /\ UNCHANGED <<files, current_dir>>
       ELSE IF navigate_dir(current_dir, 1) # ""
       THEN /\ switch_dir(navigate_dir(current_dir, 1), "first")
            /\ needs_display' = TRUE
       ELSE UNCHANGED <<files, current_dir, cursor, needs_display>>
    /\ frame_pc' = "cold"
    /\ list_ops' = list_ops + 1
    /\ UNCHANGED <<uiRest, collection_mode, watched_dir, dir_rows, catVars, wtVars>>
    /\ UNCHANGED othersOfList

\* k: the previous file, or the last file of the previous directory.
KeyK ==
    /\ frame_pc = "events"
    /\ list_ops < MaxListOps
    /\ IF cursor > 1
       THEN /\ cursor' = cursor - 1
            /\ needs_display' = TRUE
            /\ UNCHANGED <<files, current_dir>>
       ELSE IF navigate_dir(current_dir, -1) # ""
       THEN /\ switch_dir(navigate_dir(current_dir, -1), "last")
            /\ needs_display' = TRUE
       ELSE UNCHANGED <<files, current_dir, cursor, needs_display>>
    /\ frame_pc' = "cold"
    /\ list_ops' = list_ops + 1
    /\ UNCHANGED <<uiRest, collection_mode, watched_dir, dir_rows, catVars, wtVars>>
    /\ UNCHANGED othersOfList

\* r: "refresh current directory"
KeyR ==
    /\ frame_pc = "events"
    /\ list_ops < MaxListOps
    /\ LET old_id == id_at(files, cursor)
           new_files == files_by_dir(current_dir)
       IN  /\ files' = new_files
           /\ cursor' = IF new_files = <<>> THEN 1
                        ELSE IF old_id # NoId
                        THEN Max(position_of_id(new_files, old_id), 1)
                        ELSE cursor
    /\ needs_display' = TRUE
    /\ frame_pc' = "cold"
    /\ list_ops' = list_ops + 1
    /\ UNCHANGED <<uiRest, collection_mode, current_dir, watched_dir, dir_rows, catVars,
                   wtVars>>
    /\ UNCHANGED othersOfList

\* Db::dir_is_tracked(dir) || Db::dir_is_covered(dir): the directories of
\* the model are not nested, so only dir itself covers dir.
tracked_or_covered(dir) == \E r \in dir_rows : r.path = dir

\* Db::dir_track(dir, false)
dir_track(rows, dir) == {r \in rows : r.path # dir} \cup {[path |-> dir, recursive |-> FALSE]}

\* Event::DropFile with the path of file f: handle_drop, then needs_display
\* when it returned true.
DropFile(f) ==
    /\ frame_pc = "events"
    /\ list_ops < MaxListOps
    /\ LET parent == Files[f].dir
           r == discovered(parent)
           in_parent == {g \in r.rows : Files[g].dir = parent}
           new_files == sorted_entries(r.id, in_parent)
           idx == position_of_file(new_files, f)
       IN  IF disk[f] = NoStat \/ (~is_image(Files[f].path) /\ ~is_video(Files[f].path))
           THEN UNCHANGED <<files, current_dir, cursor, needs_display, collection_mode,
                            dir_rows, cat_rows, cat_id, cat_temp, cat_size, cat_mtime,
                            cat_hash, idx_stat>>
           ELSE /\ cat_rows' = r.rows
                /\ cat_id' = r.id
                /\ cat_size' = r.size
                /\ cat_mtime' = r.mtime
                /\ cat_hash' = r.hash
                /\ idx_stat' = r.stat
                /\ IF ~tracked_or_covered(parent)
                   THEN /\ dir_rows' = dir_track(dir_rows, parent)
                        /\ cat_temp' = cat_temp \cup in_parent
                   ELSE UNCHANGED <<dir_rows, cat_temp>>
                /\ collection_mode' = NoMode
                /\ IF new_files = <<>>
                   THEN UNCHANGED <<files, current_dir, cursor, needs_display>>
                   ELSE /\ files' = new_files
                        /\ current_dir' = parent
                        /\ cursor' = Max(idx, 1)
                        /\ needs_display' = TRUE
    /\ frame_pc' = "cold"
    /\ list_ops' = list_ops + 1
    /\ UNCHANGED <<uiRest, watched_dir, disk, fs_ops, wtVars>>
    /\ UNCHANGED othersOfList

\* ------------------------------------------------------------------------
\* The database: the directories table (db.rs)
\* ------------------------------------------------------------------------
\* Paths are text: "/", "/p", "/ps" (which begins with the text of "/p")
\* and "/p/a" (a directory inside "/p").
DirPaths == {<<"/">>, <<"/", "p">>, <<"/", "p", "s">>, <<"/", "p", "/", "a">>}

othersOfDb == <<texVars, preVars, plVars, uiVars, rendVars, jobVars, catVars, wtVars, listVars,
                auxVars>>

tagVars == <<conn_lock, th, db_log>>

storeVars == <<files_tbl, meta_tbl, history, last_insert_rowid, db_ret, db_ops, tagVars>>

\* str::starts_with
starts_with(s, prefix) == Len(prefix) <= Len(s) /\ SubSeq(s, 1, Len(prefix)) = prefix

\* The rows of the table with the rows of path p rewritten by set(row).
update_dirs(p, set(_)) == {IF r.path = p THEN set(r) ELSE r : r \in directories}

\* Db::dir_track: INSERT .. VALUES (p, 1, 0, rec) ON CONFLICT(path) DO
\* UPDATE SET tracked = 1, recursive = rec
DirTrack(p, rec) ==
    /\ directories' =
          IF \E r \in directories : r.path = p
          THEN LET set(r) == [r EXCEPT !.tracked = TRUE, !.recursive = rec]
               IN  update_dirs(p, set)
          ELSE directories \cup {[path |-> p, tracked |-> TRUE, watched |-> FALSE,
                                  recursive |-> rec]}
    /\ UNCHANGED <<othersOfDb, storeVars>>

\* Db::dir_is_tracked
dir_is_tracked(p) == \E r \in directories : r.path = p /\ r.tracked

\* A cover test on the bare text of the directory.
dir_is_covered_by_text(p) ==
    \E r \in directories : r.tracked /\ r.recursive /\ (p = r.path \/ starts_with(p, r.path))

\* Db::dir_is_covered: p == dir || p.starts_with(format!("{}/", dir)) for
\* some row with tracked = 1 AND recursive = 1
dir_is_covered(p) ==
    \E r \in directories :
        r.tracked /\ r.recursive /\ (p = r.path \/ starts_with(p, r.path \o <<"/">>))

\* Db::dir_untrack: UPDATE .. SET tracked = 0, watched = 0 WHERE path = p
DirUntrack(p) ==
    /\ LET set(r) == [r EXCEPT !.tracked = FALSE, !.watched = FALSE]
       IN  directories' = update_dirs(p, set)
    /\ UNCHANGED <<othersOfDb, storeVars>>

\* A watch that marks the row whether it is tracked or not.
dir_watch_any(r) == [r EXCEPT !.watched = TRUE]

\* Db::dir_watch: UPDATE .. SET watched = 1 WHERE path = p AND tracked = 1
dir_watch(r) == IF r.tracked THEN [r EXCEPT !.watched = TRUE] ELSE r

DirWatch(p) ==
    /\ directories' = update_dirs(p, dir_watch)
    /\ UNCHANGED <<othersOfDb, storeVars>>

\* Db::dir_unwatch: UPDATE .. SET watched = 0 WHERE path = p
DirUnwatch(p) ==
    /\ LET set(r) == [r EXCEPT !.watched = FALSE]
       IN  directories' = update_dirs(p, set)
    /\ UNCHANGED <<othersOfDb, storeVars>>

\* ------------------------------------------------------------------------
\* The database: the files, meta and history tables (db.rs)
\* ------------------------------------------------------------------------
\* An Option is a sequence: <<>> for None and NULL, <<x>> for Some(x).
StorePaths == {"/a/1.jpg", "/a/2.jpg"}

Hashes == {"h1", "h2"}

\* The ids a caller passes: those of rows and one of no row.
StoreIds == 1..3

NoCall == [op |-> "none", arg |-> <<>>, val |-> <<>>]

\* The rows of files with the rows of id rewritten by set(row).
update_files(id, set(_)) == {IF r.id = id THEN set(r) ELSE r : r \in files_tbl}

\* Db::file_insert: INSERT OR IGNORE INTO files .., then
\* Some(db.last_insert_rowid())
FileInsert(path, st) ==
    LET present == \E r \in files_tbl : r.path = path
        id == next_rowid({r.id : r \in files_tbl})
        rowid == IF present THEN last_insert_rowid ELSE id
    IN  /\ db_ops < MaxDbOps
        /\ files_tbl' =
              IF present THEN files_tbl
              ELSE files_tbl \cup {[id |-> id, path |-> path, size |-> stat_size(st),
                                    modified_at |-> scanner_mtime(st), hash_sha512 |-> <<>>,
                                    meta_id |-> <<>>]}
        /\ last_insert_rowid' = rowid
        /\ db_ret' = [op |-> "file_insert", arg |-> <<path, present>>, val |-> <<rowid>>]
        /\ db_ops' = db_ops + 1
        /\ UNCHANGED <<meta_tbl, history, directories, othersOfDb, tagVars>>

\* An update of size and modified_at that clears the hash and keeps the
\* reference to the meta row.
file_update_meta_keeps_ref(r, st) ==
    [r EXCEPT !.size = stat_size(st), !.modified_at = scanner_mtime(st), !.hash_sha512 = <<>>]

\* Db::file_update_meta: UPDATE files SET size = .., modified_at = ..,
\* hash_sha512 = NULL, meta_id = NULL WHERE id = ..
file_update_meta(r, st) ==
    [r EXCEPT !.size = stat_size(st), !.modified_at = scanner_mtime(st), !.hash_sha512 = <<>>,
              !.meta_id = <<>>]

FileUpdateMeta(id, st) ==
    /\ db_ops < MaxDbOps
    /\ LET set(r) == file_update_meta(r, st)
       IN  files_tbl' = update_files(id, set)
    /\ db_ret' = [op |-> "file_update_meta", arg |-> <<id>>, val |-> <<>>]
    /\ db_ops' = db_ops + 1
    /\ UNCHANGED <<meta_tbl, history, last_insert_rowid, directories, othersOfDb, tagVars>>

\* Db::file_set_hash_meta: INSERT OR IGNORE INTO meta (hash_sha512), SELECT
\* id FROM meta WHERE hash_sha512 = .., UPDATE files SET hash_sha512 = ..,
\* meta_id = .. WHERE id = ..
FileSetHashMeta(file_id, hash) ==
    LET present == \E m \in meta_tbl : m.hash_sha512 = hash
        new_id == next_rowid({m.id : m \in meta_tbl})
        metas == IF present THEN meta_tbl
                 ELSE meta_tbl \cup {[id |-> new_id, hash_sha512 |-> hash, tags |-> <<>>]}
        meta_id == (CHOOSE m \in metas : m.hash_sha512 = hash).id
        set(r) == [r EXCEPT !.hash_sha512 = <<hash>>, !.meta_id = <<meta_id>>]
    IN  /\ db_ops < MaxDbOps
        /\ meta_tbl' = metas
        /\ last_insert_rowid' = IF present THEN last_insert_rowid ELSE new_id
        /\ files_tbl' = update_files(file_id, set)
        /\ db_ret' = [op |-> "file_set_hash_meta", arg |-> <<file_id, hash>>, val |-> <<>>]
        /\ db_ops' = db_ops + 1
        /\ UNCHANGED <<history, directories, othersOfDb, tagVars>>

\* Db::remove_file_by_id: the row of id is deleted.
RemoveFileById(id) ==
    /\ db_ops < MaxDbOps
    /\ files_tbl' = {r \in files_tbl : r.id # id}
    /\ db_ret' = [op |-> "remove_file_by_id", arg |-> <<id>>, val |-> <<>>]
    /\ db_ops' = db_ops + 1
    /\ UNCHANGED <<meta_tbl, history, last_insert_rowid, directories, othersOfDb, tagVars>>

\* ------------------------------------------------------------------------
\* Tags: toggle_like, toggle_collection and their readers on the shared
\* connection (db.rs)
\* ------------------------------------------------------------------------
\* The threads that hold a clone of the Db.
Threads == {1, 2}

Idle == [pc |-> "idle", op |-> "none", file_id |-> 0, tag |-> "", tags |-> <<>>, meta_id |-> <<>>]

\* fn collection_tag
collection_tag(c) == IF c = 9 THEN "like" ELSE IF c \in 2..8 THEN "c" \o ToString(c) ELSE ""

\* The collections whose keys toggle a tag in the model.
TagKeys == {2}

ToSet(q) == {q[i] : i \in 1..Len(q)}

\* A lock that is given to a thread while another one holds it.
mutex_lock_shared(t) == TRUE

\* self.0.lock(): the thread gets the mutex when no thread holds it.
mutex_lock(t) == conn_lock = 0

\* A toggle that appends the tag whether it is there or not.
toggled_appends(tags, tag) == Append(tags, tag)

\* if tags.contains(tag) { tags.retain(|t| t != tag) } else { tags.push(tag) }
toggled(tags, tag) ==
    IF tag \in ToSet(tags) THEN SelectSeq(tags, LAMBDA t : t # tag) ELSE Append(tags, tag)

\* SELECT meta_id FROM files WHERE id = file_id
meta_id_of(file_id) ==
    IF \E f \in files_tbl : f.id = file_id
    THEN (CHOOSE f \in files_tbl : f.id = file_id).meta_id
    ELSE <<>>

\* SELECT tags FROM meta WHERE id = meta_id, parsed; [] when there is no row
tags_of(meta_id) ==
    IF \E m \in meta_tbl : m.id = meta_id
    THEN (CHOOSE m \in meta_tbl : m.id = meta_id).tags
    ELSE <<>>

\* toggle_like / toggle_collection: let db = self.conn()
ToggleLock(t, op, file_id, tag) ==
    /\ db_ops < MaxToggles
    /\ th[t].pc = "idle"
    /\ mutex_lock(t)
    /\ conn_lock' = t
    /\ th' = [th EXCEPT ![t] = [Idle EXCEPT !.pc = "select", !.op = op, !.file_id = file_id,
                                             !.tag = tag]]
    /\ db_ops' = db_ops + 1
    /\ UNCHANGED <<files_tbl, meta_tbl, history, last_insert_rowid, db_ret, db_log, directories,
                   othersOfDb>>

\* The two SELECTs of a toggle: without a meta_id the call returns false
\* and the guard is dropped.
ToggleSelect(t) ==
    /\ th[t].pc = "select"
    /\ LET meta_id == meta_id_of(th[t].file_id)
       IN  IF meta_id = <<>>
           THEN /\ th' = [th EXCEPT ![t] = Idle]
                /\ conn_lock' = IF conn_lock = t THEN 0 ELSE conn_lock
                /\ db_ret' = [op |-> th[t].op, arg |-> <<th[t].file_id>>, val |-> <<FALSE>>]
                /\ db_log' = Append(db_log, [op |-> th[t].op, file_id |-> th[t].file_id,
                                             tag |-> th[t].tag, meta_id |-> <<>>,
                                             before |-> <<>>, after |-> <<>>,
                                             rows |-> Len(history), thread |-> t])
           ELSE /\ th' = [th EXCEPT ![t].pc = "update", ![t].meta_id = meta_id,
                                    ![t].tags = tags_of(meta_id[1])]
                /\ UNCHANGED <<conn_lock, db_ret, db_log>>
    /\ UNCHANGED <<files_tbl, meta_tbl, history, last_insert_rowid, db_ops, directories,
                   othersOfDb>>

\* The rest of a toggle: toggle_like inserts the history row, both write the
\* new tags with one UPDATE, return whether the tag is in now and drop the
\* guard.
ToggleUpdate(t) ==
    /\ th[t].pc = "update"
    /\ LET c == th[t]
           now_in == c.tag \notin ToSet(c.tags)
           tags == toggled(c.tags, c.tag)
           rows == IF c.op = "toggle_like"
                   THEN Append(history, [file_id |-> c.file_id,
                                         action |-> IF now_in THEN "like" ELSE "unlike"])
                   ELSE history
       IN  /\ history' = rows
           /\ last_insert_rowid' = IF c.op = "toggle_like" THEN Len(rows)
                                   ELSE last_insert_rowid
           /\ meta_tbl' = {IF m.id = c.meta_id[1] THEN [m EXCEPT !.tags = tags] ELSE m :
                             m \in meta_tbl}
           /\ db_ret' = [op |-> c.op, arg |-> <<c.file_id>>, val |-> <<now_in>>]
           /\ db_log' = Append(db_log, [op |-> c.op, file_id |-> c.file_id, tag |-> c.tag,
                                        meta_id |-> c.meta_id, before |-> c.tags,
                                        after |-> tags, rows |-> Len(rows), thread |-> t])
    /\ th' = [th EXCEPT ![t] = Idle]
    /\ conn_lock' = IF conn_lock = t THEN 0 ELSE conn_lock
    /\ UNCHANGED <<files_tbl, db_ops, directories, othersOfDb>>

\* Db::file_in_collection for a tag: one SELECT under the guard, with
\* m.tags LIKE '%"tag"%'; the answer is kept with the number of toggles
\* written before it.
FileInCollection(t, file_id, tag) ==
    /\ db_ops < MaxToggles
    /\ th[t].pc = "idle"
    /\ mutex_lock(t)
    /\ LET meta_id == meta_id_of(file_id)
       IN  db_ret' = [op |-> "file_in_collection", arg |-> <<file_id, tag, Len(db_log)>>,
                      val |-> <<meta_id # <<>> /\ tag \in ToSet(tags_of(meta_id[1]))>>]
    /\ db_ops' = db_ops + 1
    /\ UNCHANGED <<files_tbl, meta_tbl, history, last_insert_rowid, tagVars, directories,
                   othersOfDb>>

\* ------------------------------------------------------------------------
\* Scanner runs: scanner::rescan and the scan command (scanner.rs, cli.rs)
\* ------------------------------------------------------------------------
ScanRoots == {"/", "/d1", "/d3"}

\* The rows of the files table as a set of records.
store_rows(rows, id, size, mtime, hash, temp) ==
    {[file |-> f, id |-> id[f], size |-> size[f], modified_at |-> mtime[f],
      hashed |-> f \in hash, temporary |-> f \in temp] : f \in rows}

\* scanner::rescan(db, root): discover, then every row of
\* files_by_dir(root) whose path does not exist is removed and counted.
Rescan(root) ==
    LET r == discovered(root)
        db_files == {f \in r.rows : Files[f].dir = root}
        stale == {f \in db_files : ~path_exists(Files[f].path)}
    IN  /\ db_ops < MaxScans
        /\ cat_rows' = r.rows \ stale
        /\ cat_id' = [f \in 1..Len(Files) |-> IF f \in stale THEN 0 ELSE r.id[f]]
        /\ cat_size' = r.size
        /\ cat_mtime' = r.mtime
        /\ cat_hash' = r.hash \ stale
        /\ cat_temp' = cat_temp \ stale
        /\ idx_stat' = r.stat
        /\ db_log' = Append(db_log,
              [op |-> "rescan", root |-> root, fs_ops |-> fs_ops, updated |-> r.count,
               pruned |-> Cardinality(stale),
               removed |-> Cardinality(r.rows) - Cardinality(cat_rows'),
               changed |-> store_rows(cat_rows, cat_id, cat_size, cat_mtime, cat_hash, cat_temp)
                           # store_rows(cat_rows', cat_id', cat_size', cat_mtime', cat_hash',
                                        cat_temp')])
        /\ db_ops' = db_ops + 1
        /\ UNCHANGED <<disk, fs_ops, wtVars, listVars, directories, files_tbl, meta_tbl, history,
                       last_insert_rowid, db_ret, conn_lock, th>>
        /\ UNCHANGED <<texVars, preVars, plVars, uiVars, rendVars, jobVars, auxVars>>

\* cli::scan(db, Some(path)): discover on the path, the count is printed.
CliScan(path) ==
    LET r == discovered(path)
    IN  /\ db_ops < MaxScans
        /\ cat_rows' = r.rows
        /\ cat_id' = r.id
        /\ cat_size' = r.size
        /\ cat_mtime' = r.mtime
        /\ cat_hash' = r.hash
        /\ idx_stat' = r.stat
        /\ db_log' = Append(db_log,
              [op |-> "scan", root |-> path, fs_ops |-> fs_ops, updated |-> r.count,
               pruned |-> 0, removed |-> 0,
               changed |-> store_rows(cat_rows, cat_id, cat_size, cat_mtime, cat_hash, cat_temp)
                           # store_rows(cat_rows', cat_id', cat_size', cat_mtime', cat_hash',
                                        cat_temp)])
        /\ db_ops' = db_ops + 1
        /\ UNCHANGED <<disk, cat_temp, fs_ops, wtVars, listVars, directories, files_tbl,
                       meta_tbl, history, last_insert_rowid, db_ret, conn_lock, th>>
        /\ UNCHANGED <<texVars, preVars, plVars, uiVars, rendVars, jobVars, auxVars>>

\* The tables of a database that holds the rows in f and m.
InitDbWith(f, m) ==
    /\ directories = {}
    /\ files_tbl = f
    /\ meta_tbl = m
    /\ history = <<>>
    /\ last_insert_rowid = 0
    /\ db_ret = NoCall
    /\ db_ops = 0
    /\ conn_lock = 0
    /\ th = [t \in Threads |-> Idle]
    /\ db_log = <<>>

\* Db::ensure_schema on a new database: the tables are empty.
InitDb == InitDbWith({}, {})

\* main has not reached its end: the wait loop has not begun.
InitShutdown ==
    /\ sd_pc = "poll"
    /\ sd_elapsed = 0
    /\ sd_joined = FALSE

\* No frame has been rendered.
InitFrames ==
    /\ r_src = NoPath
    /\ hf_src = NoPath

\* No file has the attribute, no hash job runs.
InitHashJob ==
    /\ xattr = [f \in 1..Len(Files) |-> NoStat]
    /\ hj_pc = "idle"
    /\ hj_file = 0
    /\ hj_read = NoStat
    /\ hash_src = [f \in 1..Len(Files) |-> NoStat]

InitAux == InitShutdown /\ InitFrames /\ InitHashJob

\* The catalogue, the watcher thread and the list when the viewer starts:
\* fs_watcher.watch_dir(&watched_dir) has been called.
InitEnv ==
    /\ InitCatalogue({}, StartRows)
    /\ InitWatcherThread({}, <<[op |-> "Watch", dir |-> Files[cursor].dir]>>)
    /\ InitList
    /\ InitDb
    /\ InitAux

\* The same when the store marks /d1 as watched: run_watcher has registered
\* it before its loop.
StartupWatched == {"/d1"}

InitEnvWatched ==
    /\ InitCatalogue({}, StartRows)
    /\ InitWatcherThread(StartupWatched, <<[op |-> "Watch", dir |-> Files[cursor].dir]>>)
    /\ InitList
    /\ InitDb
    /\ InitAux

\* ------------------------------------------------------------------------
\* The hash layer beside the watcher: process_hash on a file that changes
\* ------------------------------------------------------------------------
othersOfHash == <<texVars, preVars, plVars, uiVars, rendVars, jobVars, wtVars, listVars, dbVars,
                  shutVars, frameVars, disk, cat_rows, cat_id, cat_temp, cat_size, cat_mtime,
                  idx_stat, fs_ops>>

\* Db::next_missing_hash can return the row of f: its hash_sha512 is NULL
hash_is_missing(f) == f \in cat_rows /\ f \notin cat_hash

\* xattr_get(path, "user.lv.sha512") returns a value
xattr_hit(f) == disk[f] # NoStat /\ xattr[f] # NoStat

\* Db::file_set_hash_meta(file_id, hash): UPDATE files SET hash_sha512 = ..
\* WHERE id = file_id, whatever size and modified_at the row has now.
file_set_hash_meta(f, content) ==
    IF f \in cat_rows
    THEN /\ cat_hash' = cat_hash \cup {f}
         /\ hash_src' = [hash_src EXCEPT ![f] = content]
    ELSE UNCHANGED <<cat_hash, hash_src>>

\* process_hash, the attribute holds a hash: it is linked and the job ends.
HashFromXattr(f) ==
    /\ hj_pc = "idle"
    /\ hash_is_missing(f)
    /\ xattr_hit(f)
    /\ file_set_hash_meta(f, xattr[f])
    /\ UNCHANGED <<xattr, hj_pc, hj_file, hj_read>>
    /\ UNCHANGED othersOfHash

\* process_hash without the attribute: File::open and the reads; the hash
\* is that of the content at this moment.
HashRead(f) ==
    /\ hj_pc = "idle"
    /\ hash_is_missing(f)
    /\ ~xattr_hit(f)
    /\ disk[f] # NoStat
    /\ hj_pc' = "hashed"
    /\ hj_file' = f
    /\ hj_read' = disk[f]
    /\ UNCHANGED <<xattr, hash_src, cat_hash>>
    /\ UNCHANGED othersOfHash

\* .. then xattr_set(path, "user.lv.sha512", hash) and file_set_hash_meta
HashStore ==
    /\ hj_pc = "hashed"
    /\ xattr' = IF disk[hj_file] # NoStat THEN [xattr EXCEPT ![hj_file] = hj_read] ELSE xattr
    /\ file_set_hash_meta(hj_file, hj_read)
    /\ hj_pc' = "idle"
    /\ hj_file' = 0
    /\ hj_read' = NoStat
    /\ UNCHANGED othersOfHash

\* ------------------------------------------------------------------------
\* Specifications
\* ------------------------------------------------------------------------
\* The viewer: TextureCache::new(20), an empty Preloader, the main loop
\* about to display the file under the cursor.
Init ==
    /\ InitTexCache({20})
    /\ InitPreloader
    /\ InitPl
    /\ InitUi
    /\ InitRend
    /\ InitEnv
    /\ InitJobs

NextUi ==
    \/ Tick
    \/ \E c \in 1..Len(Files) : KeyNavigate(c)
    \/ NoInput
    \/ ColdCheckTake
    \/ ColdCheckPending
    \/ DisplayStep
    \/ DebounceStep
    \/ DecoderStep

Spec == Init /\ [][NextUi]_vars

\* The main loop keeps running frames and time keeps passing.
SpecLive ==
    /\ Spec
    /\ WF_vars(Tick)
    /\ WF_vars(NoInput \/ \E c \in 1..Len(Files) : KeyNavigate(c))
    /\ WF_vars(ColdCheckTake)
    /\ WF_vars(ColdCheckPending)
    /\ WF_vars(DisplayStep)
    /\ WF_vars(DebounceStep)

\* The main loop on the two images, with their decoder threads; every frame
\* of the loop runs to its end.
ColdRows == {1, 3}

NextCold ==
    \/ \E c \in ColdRows : KeyNavigate(c)
    \/ NoInput
    \/ ColdCheckTake
    \/ ColdCheckPending
    \/ DisplayStep
    \/ DebounceStep
    \/ DecoderStep

InitCold ==
    /\ Init
    /\ cursor \in ColdRows

SpecCold ==
    /\ InitCold
    /\ [][NextCold]_vars
    /\ WF_vars(NoInput \/ \E c \in ColdRows : KeyNavigate(c))
    /\ WF_vars(ColdCheckTake)
    /\ WF_vars(ColdCheckPending)
    /\ WF_vars(DisplayStep)
    /\ WF_vars(DebounceStep)

\* The main loop with its decoder threads while files are dropped on the
\* window: the list changes to the directory of the dropped file.
WindowDrops == {1, 7}

InitWindow ==
    /\ Init
    /\ cursor = 3

NextWindow ==
    \/ NoInput
    \/ ColdCheckTake
    \/ ColdCheckPending
    \/ DisplayStep
    \/ DebounceStep
    \/ DecoderStep
    \/ \E f \in WindowDrops : DropFile(f)

SpecWindow == InitWindow /\ [][NextWindow]_vars

\* The main loop beside the watcher thread, /d1 being watched from the
\* start: a file of /d2 is dropped on the window, k leads back.
RewatchDrops == {3}

InitRewatch ==
    /\ InitTexCache({20})
    /\ InitPreloader
    /\ InitPl
    /\ InitUi
    /\ InitRend
    /\ InitJobs
    /\ cursor = 1
    /\ InitEnvWatched

NextRewatch ==
    \/ NoInput
    \/ ColdCheckTake
    \/ ColdCheckPending
    \/ DisplayStep
    \/ DebounceStep
    \/ \E f \in RewatchDrops : DropFile(f)
    \/ KeyK
    \/ WtTop
    \/ WtDrain
    \/ WtTimeout

SpecRewatch == InitRewatch /\ [][NextRewatch]_vars

\* A worker on the hash layer beside the watcher thread and the scanner,
\* while a.jpg is rewritten in place once and its permissions are changed;
\* no row has a hash at the start.
InitHashing ==
    /\ InitTexCache({20})
    /\ InitPreloader
    /\ InitPl
    /\ InitUi
    /\ InitRend
    /\ InitJobs
    /\ cursor = 1
    /\ InitCatalogue({}, StartRows)
    /\ InitWatcherThread(FsDirs, <<>>)
    /\ InitList
    /\ InitDb
    /\ InitAux

NextHashing ==
    \/ \E f \in FsFiles : FsWrite(f, NewStat)
    \/ \E f \in FsFiles : FsTouch(f)
    \/ \E dir \in FsDirs : Discover(dir)
    \/ WtTop
    \/ WtDrain
    \/ WtTimeout
    \/ WtHandleEvent
    \/ \E f \in FsFiles : HashFromXattr(f)
    \/ \E f \in FsFiles : HashRead(f)
    \/ HashStore

SpecHashing == InitHashing /\ [][NextHashing]_vars

\* A TextureCache of any capacity under any sequence of uploads and reads.
InitTex ==
    /\ InitTexCache(1..MaxCap)
    /\ InitPreloader
    /\ InitPl
    /\ InitUi
    /\ InitRend
    /\ InitEnv
    /\ InitJobs
    /\ cursor = 1

NextTex ==
    \/ \E path \in CachePaths : TexUpload(path)
    \/ \E path \in CachePaths : TexHas(path)
    \/ \E path \in CachePaths : TexGet(path)

SpecTex == InitTex /\ [][NextTex]_vars

\* A Preloader under any sequence of UI-thread calls and decoder threads.
InitPreload ==
    /\ Init
    /\ cursor = 1

NextPreload ==
    \/ \E path \in ImagePaths : UiSchedule(path)
    \/ \E path \in ImagePaths : UiCheckTake(path)
    \/ UiCheckPending
    \/ DecoderStep

SpecPreload == InitPreload /\ [][NextPreload]_vars

\* The render thread next to the UI thread's resize signalling and reads.
InitRender ==
    /\ Init
    /\ cursor = 1

NextRender ==
    \/ RLoopTop
    \/ RSwapResize
    \/ RLoadWidth
    \/ RLoadHeight
    \/ \E i \in 1..2 : RRealloc(i)
    \/ RSwapRedraw
    \/ RRenderBegin
    \/ RRenderFinish
    \/ RPublish
    \/ RHasFrame
    \/ RCleanup
    \/ MpvUpdateCallback
    \/ \E w \in Sizes, h \in Sizes : UiStoreWidth(w, h)
    \/ UiStoreHeight
    \/ UiStoreResize
    \/ UiReadDisplayTex
    \/ UiQuit

SpecRender == InitRender /\ [][NextRender]_vars

\* The main loop on the two videos beside the render thread; the window
\* keeps its size.
LeaveRows == {2, 4}

InitLeave ==
    /\ Init
    /\ cursor = 2

NextLeave ==
    \/ Tick
    \/ \E c \in LeaveRows : KeyNavigate(c)
    \/ NoInput
    \/ ColdCheckTake
    \/ DisplayStep
    \/ DebounceStep
    \/ UiCheckFrame
    \/ RLoopTop
    \/ RSwapResize
    \/ RSwapRedraw
    \/ RRenderBegin
    \/ RRenderFinish
    \/ RPublish
    \/ RHasFrame
    \/ MpvUpdateCallback

SpecLeave == InitLeave /\ [][NextLeave]_vars

\* The end of main beside the render thread. The UI thread keeps running its
\* wait loop and its sleeps return; the render thread gets no such promise,
\* it may stay inside mpv_render_context_render. The window is resized to
\* one size.
NextShutdown ==
    \/ RLoopTop
    \/ RSwapResize
    \/ RLoadWidth
    \/ RLoadHeight
    \/ \E i \in {1, 2} : RRealloc(i)
    \/ RSwapRedraw
    \/ RRenderBegin
    \/ RRenderFinish
    \/ RPublish
    \/ RHasFrame
    \/ RCleanup
    \/ MpvUpdateCallback
    \/ UiStoreWidth(2, 2)
    \/ UiStoreHeight
    \/ UiStoreResize
    \/ UiQuit
    \/ SdPoll
    \/ SdSleep

SpecShutdown ==
    /\ InitRender
    /\ [][NextShutdown]_vars
    /\ WF_vars(SdPoll)
    /\ WF_vars(SdSleep)

\* The job workers against the store, with the UI toggling turbo.
InitJobEngine ==
    /\ Init
    /\ cursor = 1

NextJobs ==
    \/ \E w \in Workers : WTop(w)
    \/ \E w \in Workers : WFindWork(w)
    \/ \E w \in Workers : WBegin(w)
    \/ \E w \in Workers, ok \in BOOLEAN : WProcess(w, ok)
    \/ \E w \in Workers : WRecord(w)
    \/ \E w \in Workers : WWake(w)
    \/ ToggleTurbo

SpecJobs == InitJobEngine /\ [][NextJobs]_vars

\* The engine left running, in either mode: nothing but the workers writes
\* the store, and every worker thread keeps being scheduled.
InitJobsRun ==
    /\ InitTexCache({20})
    /\ InitPreloader
    /\ InitPl
    /\ InitUi
    /\ InitRend
    /\ InitEnv
    /\ cursor = 1
    /\ InitStore
    /\ \E t \in BOOLEAN : InitEngineWith(t)
    /\ cmd_pc = "off"

NextJobsRun ==
    \/ \E w \in Workers : WTop(w)
    \/ \E w \in Workers : WFindWork(w)
    \/ \E w \in Workers : WBegin(w)
    \/ \E w \in Workers, ok \in BOOLEAN : WProcess(w, ok)
    \/ \E w \in Workers : WRecord(w)
    \/ \E w \in Workers : WWake(w)

SpecJobsRun ==
    /\ InitJobsRun /\ [][NextJobsRun]_vars
    /\ \A w \in Workers : WF_vars(WTop(w))
    /\ \A w \in Workers : WF_vars(WFindWork(w))
    /\ \A w \in Workers : WF_vars(WBegin(w))
    /\ \A w \in Workers : WF_vars(\E ok \in BOOLEAN : WProcess(w, ok))
    /\ \A w \in Workers : WF_vars(WRecord(w))
    /\ \A w \in Workers : WF_vars(WWake(w))

\* The engine with its rate updater, and JobEngine::stop called at any time.
NextJobsStop ==
    \/ \E w \in Workers : WTop(w)
    \/ \E w \in Workers : WFindWork(w)
    \/ \E w \in Workers : WBegin(w)
    \/ \E w \in Workers, ok \in BOOLEAN : WProcess(w, ok)
    \/ \E w \in Workers : WRecord(w)
    \/ \E w \in Workers : WWake(w)
    \/ EngineStop
    \/ StopJoined
    \/ RateCheck
    \/ RateUpdate

\* The engine started on a store whose files are hashed already, in lazy
\* or in turbo mode.
InitStop ==
    /\ InitTexCache({20})
    /\ InitPreloader
    /\ InitPl
    /\ InitUi
    /\ InitRend
    /\ InitEnv
    /\ cursor = 1
    /\ HashedStore
    /\ \E t \in BOOLEAN : InitEngineWith(t)
    /\ cmd_pc = "off"

\* Every thread of the engine keeps being scheduled, a sleep ends, and
\* process_layer returns.
SpecJobsLive ==
    /\ InitStop /\ [][NextJobsStop]_vars
    /\ \A w \in Workers : WF_vars(WTop(w))
    /\ \A w \in Workers : WF_vars(WFindWork(w))
    /\ \A w \in Workers : WF_vars(WBegin(w))
    /\ \A w \in Workers : WF_vars(\E ok \in BOOLEAN : WProcess(w, ok))
    /\ \A w \in Workers : WF_vars(WRecord(w))
    /\ \A w \in Workers : WF_vars(WWake(w))
    /\ WF_vars(RateCheck)
    /\ WF_vars(RateUpdate)
    /\ WF_vars(StopJoined)

\* The `worker` command: the engine, and the command polling stats.active.
InitWorkerCmd ==
    /\ InitTexCache({20})
    /\ InitPreloader
    /\ InitPl
    /\ InitUi
    /\ InitRend
    /\ InitEnv
    /\ cursor = 1
    /\ InitStore
    /\ InitEngine
    /\ cmd_pc = "start"

NextWorkerCmd ==
    \/ \E w \in Workers : WTop(w)
    \/ \E w \in Workers : WFindWork(w)
    \/ \E w \in Workers : WBegin(w)
    \/ \E w \in Workers, ok \in BOOLEAN : WProcess(w, ok)
    \/ \E w \in Workers : WRecord(w)
    \/ \E w \in Workers : WWake(w)
    \/ StopJoined
    \/ RateCheck
    \/ RateUpdate
    \/ CmdSetTurbo
    \/ CmdPoll
    \/ CmdRecheck
    \/ CmdReturn

SpecWorkerCmd == InitWorkerCmd /\ [][NextWorkerCmd]_vars

\* The watcher thread, the UI sending it commands, the scanner, and the
\* environment changing files; at the start the rows are hashed and the
\* directory is marked watched.
InitWatcher ==
    /\ InitTexCache({20})
    /\ InitPreloader
    /\ InitPl
    /\ InitUi
    /\ InitRend
    /\ InitJobs
    /\ cursor = 1
    /\ InitCatalogue(StartRows, StartRows)
    /\ InitWatcherThread(FsDirs, <<>>)
    /\ InitList
    /\ InitDb
    /\ InitAux

NextWatcher ==
    \/ \E f \in FsFiles, st \in {OldStat, NewStat} : FsWrite(f, st)
    \/ \E f \in FsFiles : FsTouch(f)
    \/ \E f \in FsFiles : FsRemove(f)
    \/ \E dir \in FsDirs : Discover(dir)
    \/ \E dir \in FsDirs : WatchDir(dir)
    \/ \E dir \in FsDirs : UnwatchDir(dir)
    \/ WatcherStop
    \/ WtTop
    \/ WtDrain
    \/ WtTimeout
    \/ WtHandleEvent

SpecWatcher == InitWatcher /\ [][NextWatcher]_vars

\* The viewer with its list, some frames after v.mp4 was opened from the
\* command line: the video plays.  Frames of the main loop without the
\* passing of time, keys and drops that change the list, the watcher
\* thread, and files of the first directory being removed.
ListFsFiles == {1, 2}

ListDrops == {6, 7}

InitListView ==
    /\ InitTexCache({20})
    /\ InitPreloader
    /\ InitPl
    /\ frame_pc = "events"
    /\ cursor = 2
    /\ needs_display = FALSE
    /\ pending_cold_load = NoPath
    /\ pending_video = NoVideo
    /\ using_mpv = TRUE
    /\ video_has_frame = FALSE
    /\ has_frame = FALSE
    /\ error_message = NoError
    /\ mpv_file = "v.mp4"
    /\ sel_timer = MaxElapsed
    /\ burst_path = "v.mp4"
    /\ burst_len = 1
    /\ burst_loads = 1
    /\ burst_resumed = FALSE
    /\ InitRend
    /\ InitEnv
    /\ InitJobs

NextList ==
    \/ NoInput
    \/ ColdCheckTake
    \/ ColdCheckPending
    \/ DisplayStep
    \/ DebounceStep
    \/ WatcherRefresh
    \/ \E c \in {0, 1} : KeyCollection(c)
    \/ KeyJ
    \/ KeyK
    \/ KeyR
    \/ \E f \in ListDrops : DropFile(f)
    \/ \E f \in ListFsFiles : FsRemove(f)
    \/ WtTop
    \/ WtDrain
    \/ WtTimeout
    \/ WtHandleEvent

SpecList == InitListView /\ [][NextList]_vars

\* The directories table under the four commands that write it, on any of
\* the paths, starting from the empty table.
InitDirs ==
    /\ InitTexCache({20})
    /\ InitPreloader
    /\ InitPl
    /\ InitUi
    /\ InitRend
    /\ InitJobs
    /\ cursor = 1
    /\ InitEnv

NextDirs ==
    \/ \E p \in DirPaths, rec \in BOOLEAN : DirTrack(p, rec)
    \/ \E p \in DirPaths : DirUntrack(p)
    \/ \E p \in DirPaths : DirWatch(p)
    \/ \E p \in DirPaths : DirUnwatch(p)

SpecDirs == InitDirs /\ [][NextDirs]_vars

\* The files and meta tables under the calls of the scanner, the watcher
\* and the hash job, with any arguments, starting from the empty tables.
NextStore ==
    \/ \E path \in StorePaths, st \in {OldStat, NewStat} : FileInsert(path, st)
    \/ \E id \in StoreIds, st \in {OldStat, NewStat} : FileUpdateMeta(id, st)
    \/ \E id \in StoreIds, hash \in Hashes : FileSetHashMeta(id, hash)
    \/ \E id \in StoreIds : RemoveFileById(id)

SpecStore == InitDirs /\ [][NextStore]_vars

\* Two threads that toggle and read tags through clones of one Db; file 1
\* has been hashed (meta row 1), file 2 has not.
TagFiles ==
    {[id |-> 1, path |-> "/a/1.jpg", size |-> OldStat.size, modified_at |-> scanner_mtime(OldStat),
      hash_sha512 |-> <<"h1">>, meta_id |-> <<1>>],
     [id |-> 2, path |-> "/a/2.jpg", size |-> OldStat.size, modified_at |-> scanner_mtime(OldStat),
      hash_sha512 |-> <<>>, meta_id |-> <<>>]}

InitTags ==
    /\ InitTexCache({20})
    /\ InitPreloader
    /\ InitPl
    /\ InitUi
    /\ InitRend
    /\ InitJobs
    /\ cursor = 1
    /\ InitCatalogue({}, StartRows)
    /\ InitWatcherThread({}, <<[op |-> "Watch", dir |-> Files[cursor].dir]>>)
    /\ InitList
    /\ InitDbWith(TagFiles, {[id |-> 1, hash_sha512 |-> "h1", tags |-> <<>>]})
    /\ InitAux

NextTags ==
    \/ \E t \in Threads, f \in {1, 2} : ToggleLock(t, "toggle_like", f, "like")
    \/ \E t \in Threads, f \in {1, 2}, c \in TagKeys :
          ToggleLock(t, "toggle_collection", f, collection_tag(c))
    \/ \E t \in Threads : ToggleSelect(t)
    \/ \E t \in Threads : ToggleUpdate(t)
    \/ \E t \in Threads, f \in {1, 2}, c \in TagKeys \cup {9} :
          FileInCollection(t, f, collection_tag(c))

SpecTags == InitTags /\ [][NextTags]_vars

\* Scanner runs on "/", "/d1" and "/d3" between changes of /d1/a.jpg on
\* disk; the rows at the start are those of earlier runs, /d3/gone.mp4 has
\* been deleted since.
NextScan ==
    \/ \E root \in ScanRoots : Rescan(root)
    \/ \E path \in ScanRoots : CliScan(path)
    \/ \E f \in FsFiles, st \in {OldStat, NewStat} : FsWrite(f, st)
    \/ \E f \in FsFiles : FsRemove(f)

SpecScan == InitDirs /\ [][NextScan]_vars

\* ------------------------------------------------------------------------
\* Properties
\* ------------------------------------------------------------------------

\* C1: once the display step has run for the file under the cursor, a cold
\* decode still pending for the file the cursor left has no effect on what is
\* shown: pending_cold_load names no other path than the cursor's, and a
\* "Failed to decode image" error is about the file under the cursor.
C1_StaleColdLoadIsDropped ==
    frame_pc \in {"events", "debounce"} =>
        /\ pending_cold_load \in {NoPath, CurPath}
        /\ error_message.msg = "Failed to decode image" => error_message.fname = CurPath

\* C2: whenever loadfile is sent to the video engine, its path is the path
\* of the file under the cursor.
C2_LoadsFileUnderCursor ==
    [][LoadFires => pending_video.path = CurPath]_vars

\* C3: a burst of video selections, each less than 150 ms after the previous
\* one, gets exactly one loadfile: none before its last selection, one with
\* the last selected path once 150 ms have passed since that selection, and
\* that one is sent unless the display step selects again first.
C3_OneLoadPerBurst ==
    /\ [](burst_loads <= 1 /\ ~burst_resumed)
    /\ [][LoadFires => /\ pending_video.path = burst_path
                       /\ sel_timer >= VIDEO_DEBOUNCE_MS
                       /\ burst_loads = 0]_vars
    /\ (burst_len > 0 /\ burst_loads = 0 /\ sel_timer > 0)
           ~> (burst_loads = 1 \/ burst_len = 0 \/ sel_timer = 0)

C3_Witness ==
    /\ burst_len = MaxBurst
    /\ burst_loads = 1
    /\ mpv_file = burst_path
    /\ sel_timer >= VIDEO_DEBOUNCE_MS

\* C4: whenever the UI thread reads a non-zero display_tex, the texture of
\* that name holds a completely rendered frame at that moment.
C4_DisplayedTextureIsComplete ==
    ui_read.tex # 0 => ui_read.content = "frame"

\* C5: the cold-decode check "try_take(p) returned nothing and then
\* is_pending(p) returned false" never succeeds while p's decoder is running
\* or its buffer sits untaken in the ready map, and for a path with a
\* scheduled decode it succeeds only when that decode failed.
C5_CheckSucceedsOnlyOnFailure ==
    pl_report.outcome = "decode_failed" =>
        /\ pl_report.state \notin {"running", "stored"}
        /\ pl_report.scheduled => pl_report.state = "failed"

C5_Witness ==
    /\ pl_report.outcome = "decode_failed"
    /\ pl_report.scheduled
    /\ pl_report.state = "failed"

\* C6: schedule(p) for a path that is pending or has an untaken ready buffer
\* spawns no decoder and leaves the pending set and the ready map as they
\* were; at most one decoder thread per path is in flight.
C6_ScheduleIsNoOpWhenPending ==
    /\ (/\ pl_last.op = "schedule"
        /\ pl_last.path \in (pl_last.before[1] \cup pl_last.before[2]))
       => (~pl_last.spawned /\ pl_last.after = pl_last.before)
    /\ \A p \in Paths : decoders[p] <= 1

C6_Witness ==
    /\ pl_last.op = "schedule"
    /\ pl_last.path \in pl_last.before[2]
    /\ ~pl_last.spawned
    /\ \E p \in Paths : decoders[p] = 1

\* C7: a TextureCache of capacity C never holds more than C textures, also
\* during an upload: the victim's GL texture is deleted before the new one
\* is generated.
C7_AtMostCapacityTextures ==
    /\ Cardinality(DOMAIN tc_map) <= tc_capacity
    /\ Cardinality(gl_live) <= tc_capacity
    /\ gl_peak <= tc_capacity
    /\ gl_live = {tc_map[p] : p \in DOMAIN tc_map}

C7_Witness ==
    /\ tc_created
    /\ tc_evicted # <<>>
    /\ Cardinality(gl_live) = tc_capacity
    /\ gl_peak = tc_capacity

\* C8: the entry an upload evicts is the one least recently uploaded or
\* touched; has and get leave the next victim as it was; an upload of a
\* cached path makes it most recently used and creates no texture.
C8_EvictsLeastRecentlyUsed ==
    /\ tc_order # <<>> => Head(tc_order) = LeastRecentlyUsed
    /\ (tc_answer.op = "upload" /\ tc_evicted # <<>>) => tc_evicted = <<lru_expected>>
    /\ (tc_answer.op = "upload" /\ tc_answer.value = 1) =>
           /\ ~tc_created
           /\ tc_evicted = <<>>
           /\ tc_order[Len(tc_order)] = tc_answer.path
           /\ \A q \in DOMAIN tc_map : last_use[q] <= last_use[tc_answer.path]

C8_Witness ==
    /\ tc_answer.op = "upload"
    /\ tc_created
    /\ tc_evicted = <<lru_expected>>
    /\ \E q \in DOMAIN tc_map :
           q # tc_answer.path /\ last_use[q] > last_use[lru_expected]

\* C9: once a job_fails row for (file, layer) has been written, no worker
\* starts processing that (file, layer) while the row exists.
C9_NoProcessingAfterFailureRow ==
    [][\A w \in Workers :
          (w_pc[w] = "found" /\ w_pc'[w] = "processing") =>
              <<w_work[w].file, w_work[w].layer>> \notin job_fails]_vars

\* C10: no (file, layer) job is being processed by two workers at once.
C10_NoJobOnTwoWorkers ==
    \A w1 \in Workers, w2 \in Workers :
        (w1 # w2 /\ w_pc[w1] = "processing" /\ w_pc[w2] = "processing") =>
            w_work[w1] # w_work[w2]

\* C11: the file a worker gets from next_missing(L) has no job_fails row for
\* layer L and layer L is not yet satisfied for it (hash: hash_sha512 set;
\* exif: width set on its meta row; ai_basic: pnginfo set on its meta row),
\* as of the moment the query returns.
C11_NextMissingIsEligible ==
    [][\A w \in Workers :
          (w_pc[w] = "find" /\ w_pc'[w] = "found") =>
              LET f == w_work'[w].file
                  layer == w_work'[w].layer
              IN  /\ <<f, layer>> \notin job_fails
                  /\ layer = "hash" => db_hash[f] = NoHash
                  /\ layer = "exif" => db_meta[f] \notin meta_width
                  /\ layer = "ai_basic" => db_meta[f] \notin meta_pnginfo]_vars

C11_Witness ==
    \E w \in Workers :
        /\ w_pc[w] = "found"
        /\ w_work[w].layer = "ai_basic"
        /\ \E l \in {"hash", "exif"} : <<w_work[w].file, l>> \in job_fails
        /\ \E f \in FileIds : <<f, "hash">> \in job_fails /\ db_hash[f] = NoHash

C13_StopReturns ==
    /\ [](\A w \in Workers : q_jobs[w] <= 1 /\ q_sleeps[w] <= 1)
    /\ (stop_pc = "joining") ~> (stop_pc = "returned")
    /\ [](stop_pc = "returned" => (rs_pc = "exited" /\ \A w \in Workers : w_pc[w] = "exited"))

C13_Witness ==
    /\ stop_pc = "returned"
    /\ \E w \in Workers : q_jobs[w] = 1 /\ q_sleeps[w] = 1
    /\ \E w \in Workers : w > 0 /\ q_jobs[w] = 0 /\ q_sleeps[w] = 1

\* C14: when the `worker` command returns, next_missing returns nothing for
\* every layer.
C14_WorkerReturnsWhenNoJobRemains ==
    cmd_pc = "returned" => \A i \in 1..Len(LAYERS) : next_missing(LAYERS[i]) = {}

\* C19: when the watcher thread handles a filesystem event, every command
\* that was queued when that loop iteration began has been applied, in the
\* order the UI sent them.
C19_CommandsDrainedBeforeEvent ==
    [][(wt_pc = "recv" /\ nrx # <<>> /\ nrx' = Tail(nrx)) =>
           /\ Len(wt_seen) <= Len(wt_applied)
           /\ SubSeq(wt_applied, 1, Len(wt_seen)) = wt_seen]_vars

\* An event is about to be handled in an iteration that began with two
\* different commands queued.
C19_Witness ==
    /\ wt_pc = "recv"
    /\ nrx # <<>>
    /\ Len(wt_seen) = 2
    /\ wt_seen[1] # wt_seen[2]
    /\ wt_applied = wt_seen

\* C20: a create/modify event for a file that has a row and whose size and
\* modification time on disk are what they were when the row was written
\* leaves size and modified_at of the row as they are and keeps its hash.
C20_UnchangedFileRowUntouched ==
    [][\A f \in FsFiles :
           (/\ wt_pc = "recv" /\ nrx # <<>> /\ nrx' = Tail(nrx)
            /\ Head(nrx).file = f /\ Head(nrx).kind \in {"create", "modify"}
            /\ f \in cat_rows /\ disk[f] = idx_stat[f]) =>
               /\ cat_size'[f] = cat_size[f]
               /\ cat_mtime'[f] = cat_mtime[f]
               /\ f \in cat_hash => f \in cat_hash']_vars

\* C15: a watcher refresh after which the entry under the cursor has the id
\* it had before leaves needs_display and the video state as they are; and
\* as long as no key or drop has come and the cursor is on the row of the
\* video that played at the start, that video plays and was loaded once.
C15_RefreshKeepsVideo ==
    /\ [][(fs_rx # <<>> /\ fs_rx' = Tail(fs_rx)
            /\ id_at(files', cursor') = id_at(files, cursor)) =>
               /\ needs_display' = needs_display
               /\ UNCHANGED <<using_mpv, mpv_file, pending_video, burst_loads>>]_vars
    /\ [](list_ops = 0 /\ id_at(files, cursor) = 2 =>
               using_mpv /\ mpv_file = "v.mp4" /\ burst_loads = 1 /\ ~needs_display)

\* a.jpg has left the list by a refresh, the cursor has followed v.mp4 to the
\* first place, and the video still plays.
C15_Witness ==
    /\ list_ops = 0
    /\ Len(files) = 5
    /\ cursor = 1
    /\ files[1].file = 2
    /\ fs_rx = <<>>
    /\ ~needs_display
    /\ using_mpv
    /\ mpv_file = "v.mp4"

\* C16: after a watcher refresh the cursor is on the entry with the id it
\* was on before if the new list has that id; otherwise it is the smaller
\* of the old cursor and the last index of the new list (index 0 of the code
\* for an empty list; the cursor of the model is the code's plus one).
C16_RefreshCursor ==
    [][(fs_rx # <<>> /\ fs_rx' = Tail(fs_rx)) =>
           IF id_at(files, cursor) # NoId /\ position_of_id(files', id_at(files, cursor)) # 0
           THEN id_at(files', cursor') = id_at(files, cursor)
           ELSE cursor' - 1 = Min(cursor - 1, Max(Len(files') - 1, 0))]_vars

\* v.mp4 was under the cursor at index 1 and has left the list by a
\* refresh: the cursor is still at index 1, now on b.png.
C16_Witness ==
    /\ list_ops = 0
    /\ Len(files) = 5
    /\ cursor = 2
    /\ files[2].file = 3
    /\ fs_rx = <<>>
    /\ needs_display

\* C17: every step that changes the list, the mode or the current directory
\* leaves the list equal to what the mode's query returns at that moment:
\* files_by_collection in collection mode, files_by_dir(current_dir) in
\* directory mode.
C17_ListMatchesMode ==
    [][(files' # files \/ collection_mode' # collection_mode \/ current_dir' # current_dir) =>
           files' = (IF collection_mode # NoMode THEN files_by_collection(collection_mode)
                     ELSE files_by_dir(current_dir))']_vars

\* C18: a drop that makes the untracked directory /ext tracked tracks it
\* non-recursively, gives x.mp4 a temporary row, shows collection 1 and
\* puts the cursor on x.mp4.
C18_DropOpensCollectionOne ==
    [][(~tracked_or_covered("/ext") /\ tracked_or_covered("/ext")') =>
           /\ [path |-> "/ext", recursive |-> FALSE] \in dir_rows'
           /\ 7 \in cat_rows'
           /\ 7 \in cat_temp'
           /\ collection_mode' = 1
           /\ id_at(files', cursor') = cat_id'[7]]_vars

\* C21: after any sequence of track, untrack, watch and unwatch on any
\* paths, every directories row that is watched is tracked.
C21_WatchedIsTracked == \A r \in directories : r.watched => r.tracked

\* A row was tracked, watched and untracked again (it is neither now)
\* while another row is tracked and watched.
C21_Witness ==
    /\ \E r \in directories : ~r.tracked /\ ~r.watched
    /\ \E r \in directories : r.tracked /\ r.watched

\* C22: dir_is_covered(p) is true exactly when a tracked recursive row q has
\* p equal to its path or p beginning with its path followed by "/"; a
\* tracked recursive "/p" alone does not cover "/ps"; rows that are
\* untracked or not recursive cover nothing.
C22_CoveredIffAncestor ==
    /\ \A p \in DirPaths :
          dir_is_covered(p) <=>
             \E q \in directories :
                 /\ q.tracked
                 /\ q.recursive
                 /\ \/ p = q.path
                    \/ /\ Len(p) > Len(q.path)
                       /\ \A i \in 1..Len(q.path) : p[i] = q.path[i]
                       /\ p[Len(q.path) + 1] = "/"
    /\ (\A q \in directories : q.tracked /\ q.recursive => q.path = <<"/", "p">>)
          => ~dir_is_covered(<<"/", "p", "s">>)
    /\ (\A q \in directories : ~(q.tracked /\ q.recursive))
          => \A p \in DirPaths : ~dir_is_covered(p)

\* "/p" is tracked recursively and is the only such row, next to an
\* untracked recursive "/ps" and a tracked non-recursive "/": "/p/a" is
\* covered, "/ps" is not.
C22_Witness ==
    /\ \E q \in directories : q.path = <<"/", "p">> /\ q.tracked /\ q.recursive
    /\ \E q \in directories : q.path = <<"/", "p", "s">> /\ ~q.tracked /\ q.recursive
    /\ \E q \in directories : q.path = <<"/">> /\ q.tracked /\ ~q.recursive
    /\ \A q \in directories : q.tracked /\ q.recursive => q.path = <<"/", "p">>
    /\ dir_is_covered(<<"/", "p", "/", "a">>)
    /\ ~dir_is_covered(<<"/", "p", "s">>)

\* C23: after any sequence of file_set_hash_meta, file_update_meta,
\* file_insert and remove_file_by_id, a files row whose meta_id is not NULL
\* has the hash_sha512 of the meta row it refers to; right after
\* file_set_hash_meta(id, h) the row of id refers to the meta row of hash h.
C23_MetaRefMatchesHash ==
    /\ \A f \in files_tbl :
          f.meta_id # <<>> =>
             \E m \in meta_tbl : m.id = f.meta_id[1] /\ f.hash_sha512 = <<m.hash_sha512>>
    /\ db_ret.op = "file_set_hash_meta" =>
          \A f \in files_tbl :
             f.id = db_ret.arg[1] =>
                /\ f.meta_id # <<>>
                /\ \E m \in meta_tbl : m.id = f.meta_id[1] /\ m.hash_sha512 = db_ret.arg[2]

\* file_set_hash_meta has just linked a row to the second meta row, while
\* another row, linked before, has lost its hash and reference to
\* file_update_meta.
C23_Witness ==
    /\ db_ret.op = "file_set_hash_meta"
    /\ \E f \in files_tbl : f.id = db_ret.arg[1] /\ f.meta_id = <<2>>
    /\ \E f \in files_tbl : f.id # db_ret.arg[1] /\ f.meta_id = <<>> /\ f.size = NewStat.size
                            /\ f.modified_at = scanner_mtime(NewStat)
    /\ Cardinality(meta_tbl) = 2

\* C24: file_insert for a path that is in the table returns None and
\* leaves the row as it is; it returns an id only when it created the row.
C24_InsertExistingReturnsNone ==
    db_ret.op = "file_insert" /\ db_ret.arg[2] => db_ret.val = <<>>

\* C25: navigate_dir(current_dir, +1) is the directory right after
\* current_dir among the directories that hold files, in the order of
\* their names, navigate_dir(current_dir, -1) the one right before it, and
\* None ("") when there is no such directory.
C25_NavigateAdjacent ==
    LET at == position_of_dir(AllDirs, current_dir)
        after == {i \in (at + 1)..Len(AllDirs) : has_rows(AllDirs[i])}
        before == {i \in 1..(at - 1) : has_rows(AllDirs[i])}
    IN  /\ navigate_dir(current_dir, 1) =
              IF after = {} THEN "" ELSE AllDirs[CHOOSE i \in after : \A j \in after : i <= j]
        /\ navigate_dir(current_dir, -1) =
              IF before = {} THEN "" ELSE AllDirs[CHOOSE i \in before : \A j \in before : i >= j]

\* The toggles of tag on a file with a meta row among the first n entries
\* of the log.
TogglesOf(tag, n) == {i \in 1..n : db_log[i].tag = tag /\ db_log[i].meta_id # <<>>}

C27_TogglesAtomic ==
    /\ \A tag \in {"like", "c2"} :
          (tag \in ToSet(tags_of(1))) <=> (Cardinality(TogglesOf(tag, Len(db_log))) % 2 = 1)
    /\ db_ret.op = "file_in_collection" /\ db_ret.arg[1] = 1 =>
          (db_ret.val[1] <=> (Cardinality(TogglesOf(db_ret.arg[2], db_ret.arg[3])) % 2 = 1))

\* The two threads have each toggled a tag of file 1, both tags are in the
\* row, and a thread is in the middle of a third toggle, holding the
\* connection.
C27_Witness ==
    /\ Len(db_log) = 2
    /\ db_log[1].thread # db_log[2].thread
    /\ ToSet(tags_of(1)) = {"like", "c2"}
    /\ \E t \in Threads : th[t].pc = "update" /\ conn_lock = t

\* C28: a scanner run on a directory that the scanner has run on before,
\* with no file of the disk changed in between, reports 0 added or changed
\* and 0 pruned and leaves the files table as it is.
C28_SecondScanIsNoOp ==
    \A i \in 1..Len(db_log) : \A j \in (i + 1)..Len(db_log) :
        (/\ db_log[i].op = db_log[j].op
         /\ db_log[i].root = db_log[j].root
         /\ db_log[i].fs_ops = db_log[j].fs_ops)
        => /\ db_log[j].updated = 0
           /\ db_log[j].pruned = 0
           /\ ~db_log[j].changed

\* rescan has run twice on /d1 after a.jpg was rewritten: the first run
\* reported one changed file, the second one none.
C28_Witness ==
    /\ Len(db_log) = 2
    /\ db_log[1].op = "rescan" /\ db_log[2].op = "rescan"
    /\ db_log[1].root = "/d1" /\ db_log[2].root = "/d1"
    /\ db_log[1].fs_ops = db_log[2].fs_ops
    /\ db_log[1].updated = 1
    /\ db_log[2].updated = 0

\* C29: when rescan(root) has returned, no row of a file in root or in a
\* directory below root that the scan walks has a path missing on disk,
\* and the pruned count is the number of rows removed.
C29_RescanLeavesNoStaleRow ==
    (/\ db_log # <<>>
     /\ db_log[Len(db_log)].op = "rescan"
     /\ db_log[Len(db_log)].fs_ops = fs_ops)
    => LET last == db_log[Len(db_log)]
       IN  /\ \A f \in cat_rows : Files[f].dir \in walked(last.root) => disk[f] # NoStat
           /\ last.pruned = last.removed

\* C30: when `scan PATH` has run after a file with a row was deleted from
\* PATH, files_by_dir(PATH) holds exactly the files on disk in PATH.
C30_ScanRemovesDeletedRow ==
    (/\ db_log # <<>>
     /\ db_log[Len(db_log)].op = "scan"
     /\ db_log[Len(db_log)].fs_ops = fs_ops)
    => LET path == db_log[Len(db_log)].root
       IN  {e.file : e \in ToSet(files_by_dir(path))}
              = {f \in 1..Len(Files) : Files[f].dir = path /\ disk[f] # NoStat}

\* C31: once the UI has set quit, its wait for the render thread ends: with
\* a join if the thread had finished, and without one only after more than
\* the deadline has passed.
C31_ShutdownWaitEnds ==
    /\ sh_quit ~> (sd_pc = "exit")
    /\ [](sd_pc = "exit" =>
            /\ sd_joined => is_finished
            /\ ~sd_joined => deadline_passed(sd_elapsed))

C31_Witness == sd_pc = "exit" /\ ~sd_joined /\ ~is_finished /\ r_pc = "publish"

\* C37: from the moment the render thread has a frame to render until it
\* publishes it, the texture it renders into is not the one named by
\* display_tex; a publish names the texture just rendered, which is another
\* one than was named before, and the next frame goes to the other texture.
C37_RendersIntoOtherTexture ==
    /\ [](r_pc \in {"render", "finish", "publish"} => TexName[back + 1] # display_tex)
    /\ [][r_pc = "publish" /\ r_pc' = "has_frame" =>
            display_tex' = TexName[back + 1] /\ display_tex' # display_tex]_vars
    /\ [][r_pc = "has_frame" /\ r_pc' = "loop" =>
            back' # back /\ TexName[back + 1] = display_tex]_vars

C37_Witness ==
    /\ r_pc = "finish"
    /\ display_tex = TexName[2]
    /\ back = 0
    /\ tex_content[1] = "partial"

\* C35: when the display step has run for a file that is missing on disk, an
\* image or of an unsupported type, using_mpv is false afterwards and the
\* video engine plays nothing.
C35_NonVideoStopsEngine ==
    [][(/\ frame_pc = "display"
        /\ frame_pc' = "debounce"
        /\ needs_display
        /\ cursor \in 1..Len(files)
        /\ ~(path_exists(CurPath) /\ is_video(CurPath)))
       => (~using_mpv' /\ mpv_file' = NoPath)]_vars

\* C33: when the UI takes has_frame as the first frame of the video under
\* the cursor, the frame that has_frame announced is not one of another
\* video, which was left.
C33_NoFrameOfLeftVideo ==
    [][(~video_has_frame /\ video_has_frame') => hf_src \in {NoPath, CurPath}]_vars

\* C32: when the decode of the file awaited as cold load has failed (the
\* path is neither ready nor pending), then, unless a key asks for a new
\* display step first, the loop clears pending_cold_load and sets the error
\* "Failed to decode image" with the file's name.
C32_FailedColdLoadEnds ==
    \A p \in ImagePaths :
        (pending_cold_load = p /\ p \notin pending /\ p \notin ready)
        ~> \/ /\ pending_cold_load = NoPath
              /\ error_message = [msg |-> "Failed to decode image", fname |-> p]
           \/ needs_display

C32_Witness ==
    /\ pending_cold_load = NoPath
    /\ error_message = [msg |-> "Failed to decode image", fname |-> CurPath]
    /\ decode_state[CurPath] = "failed"
    /\ ~needs_display
    /\ is_image(CurPath)

\* The paths of the list entries schedule_preload looks at, the cursor's
\* entry included.
WindowPaths ==
    {Files[files[i].file].path :
        i \in Max(cursor - PRELOAD_BEHIND, 1)..Min(cursor + PRELOAD_AHEAD - 1, Len(files))}

\* C40: once the display step has run, the ready map holds buffers only for
\* files of the preload window around the cursor, so their number is at most
\* the window's size.
C40_ReadyWithinWindow ==
    (frame_pc = "events" /\ ~needs_display) => ready \subseteq WindowPaths

C36_StartupWatchStays ==
    wt_pc # "exited" => StartupWatched \subseteq wt_watching

\* C34: when the row of a file records the stat of the rewritten file (the
\* most recent update of size and modified_at saw the new content), a hash
\* linked to the row is a hash of the new content.
C34_HashNotOlderThanRow ==
    \A f \in FsFiles :
        (f \in cat_hash /\ cat_mtime[f] = watcher_mtime(NewStat)) => hash_src[f] = NewStat

\* C39: with the workers running and nobody else writing the store, from
\* some moment on find_work finds nothing: every (file, layer) pair some
\* next_missing query could return has its result or its job_fails row.
C39_WorkRunsOut == <>[](find_work = {})

C39_Witness ==
    /\ find_work = {}
    /\ job_fails # {}
    /\ meta_width # {}
    /\ \A w \in Workers : w_work[w] = NoWork

====
